---- MODULE Spec2Model ----
(***************************************************************************)
(* New Asgard Chess: the rules engine of the ChessGame component           *)
(* (checkSquareUnderAttack .. handleMove, handlePromotion,                 *)
(* handleSquareClick) together with the chessReducer state machine of the  *)
(* useChessReducer hook.                                                   *)
(*                                                                         *)
(* Rows and columns are the indices of the board array: row 0 is rank 8    *)
(* (black's back row), row 7 is rank 1; column 0 is file a.                *)
(***************************************************************************)
EXTENDS Integers, Sequences, FiniteSets, TLC

----------------------------------------------------------------------------
(* Values *)

\* ChessPiece | null : the empty square is a record as well, so that squares
\* compare with = .
null == [type |-> "none", color |-> "none"]

\* Position | null
nullPos == [row |-> -1, col |-> -1]

Pos(r, c) == [row |-> r, col |-> c]

Piece(t, c) == [type |-> t, color |-> c]

Squares == {Pos(r, c) : r \in 0..7, c \in 0..7}

Opp(color) == IF color = "white" THEN "black" ELSE "white"

Abs(n) == IF n < 0 THEN -n ELSE n

At(b, p) == b[p.row][p.col]

Put(b, p, piece) == [b EXCEPT ![p.row][p.col] = piece]

deepCloneBoard(b) == [r \in 0..7 |-> [c \in 0..7 |-> b[r][c]]]

----------------------------------------------------------------------------
(* useChessReducer: initial state *)

backRow == <<"rook", "knight", "bishop", "queen", "king", "bishop", "knight", "rook">>

initializeBoard ==
    [r \in 0..7 |-> [c \in 0..7 |->
        IF r = 1 THEN Piece("pawn", "black")
        ELSE IF r = 6 THEN Piece("pawn", "white")
        ELSE IF r = 0 THEN Piece(backRow[c + 1], "black")
        ELSE IF r = 7 THEN Piece(backRow[c + 1], "white")
        ELSE null]]

HasMovedKeys ==
    {"white-king", "white-rook-left", "white-rook-right",
     "black-king", "black-rook-left", "black-rook-right"}

\* hasMoved: {} , read with !hasMoved[key]
noneMoved == [k \in HasMovedKeys |-> FALSE]

noPromotion == [position |-> nullPos, color |-> "none"]

initialChessState ==
    [board            |-> initializeBoard,
     currentPlayer    |-> "white",
     selectedPiece    |-> nullPos,
     validMoves       |-> {},
     hasMoved         |-> noneMoved,
     enPassantTarget  |-> nullPos,
     moveHistory      |-> << >>,
     promotionPawn    |-> noPromotion,
     gameState        |-> [isOver |-> FALSE, winner |-> "none", message |-> ""],
     halfMoveCount    |-> 0,
     boardPositions   |-> << >>,
     isAIEnabled      |-> FALSE,
     isAIThinking     |-> FALSE,
     processingAction |-> FALSE]

----------------------------------------------------------------------------
(* ChessGame: attack and check detection *)

isInBounds(row, col) == row >= 0 /\ row < 8 /\ col >= 0 /\ col < 8

knightOffsets ==
    {<<-2, -1>>, <<-2, 1>>, <<-1, -2>>, <<-1, 2>>,
     <<1, -2>>, <<1, 2>>, <<2, -1>>, <<2, 1>>}

kingOffsets ==
    {<<-1, -1>>, <<-1, 0>>, <<-1, 1>>, <<0, -1>>, <<0, 1>>,
     <<1, -1>>, <<1, 0>>, <<1, 1>>}

rookDirections == {<<0, 1>>, <<0, -1>>, <<1, 0>>, <<-1, 0>>}

bishopDirections == {<<1, 1>>, <<1, -1>>, <<-1, 1>>, <<-1, -1>>}

\* The k-th square of the ray from pos in direction d is on the board and
\* every square before it on the ray is empty: the while loops that walk a
\* ray and break at the first piece.
RayReaches(b, pos, d, k) ==
    /\ isInBounds(pos.row + k * d[1], pos.col + k * d[2])
    /\ \A j \in 1..(k - 1) : b[pos.row + j * d[1]][pos.col + j * d[2]] = null

\* A piece of one of the given types, not of defenderColor, stands on
\* pos + offset.
OffsetAttacker(b, pos, defenderColor, off, types) ==
    /\ isInBounds(pos.row + off[1], pos.col + off[2])
    /\ LET attacker == b[pos.row + off[1]][pos.col + off[2]]
       IN  /\ attacker # null
           /\ attacker.color # defenderColor
           /\ attacker.type \in types

\* The first piece on the ray is an opposing piece of one of the given types.
RayAttacker(b, pos, defenderColor, d, types) ==
    \E k \in 1..7 :
        /\ RayReaches(b, pos, d, k)
        /\ LET piece == b[pos.row + k * d[1]][pos.col + k * d[2]]
           IN  /\ piece # null
               /\ piece.color # defenderColor
               /\ piece.type \in types

pawnDirection(defenderColor) == IF defenderColor = "white" THEN 1 ELSE -1

checkSquareUnderAttack(pos, defenderColor, checkBoard) ==
    \/ \E offset \in {-1, 1} :
          OffsetAttacker(checkBoard, pos, defenderColor,
                         <<pawnDirection(defenderColor), offset>>, {"pawn"})
    \/ \E off \in knightOffsets :
          OffsetAttacker(checkBoard, pos, defenderColor, off, {"knight"})
    \/ \E off \in kingOffsets :
          OffsetAttacker(checkBoard, pos, defenderColor, off, {"king"})
    \/ \E d \in rookDirections :
          RayAttacker(checkBoard, pos, defenderColor, d, {"rook", "queen"})
    \/ \E d \in bishopDirections :
          RayAttacker(checkBoard, pos, defenderColor, d, {"bishop", "queen"})

\* The nested row/col loops that stop at the first king of the color:
\* the first one in row-major order, or null when there is none.
findKing(color, b) ==
    LET kings == {p \in Squares : At(b, p) = Piece("king", color)}
    IN  IF kings = {} THEN nullPos
        ELSE CHOOSE p \in kings :
                \A q \in kings : p.row * 8 + p.col <= q.row * 8 + q.col

isInCheck(color, checkBoard) ==
    LET kingPos == findKing(color, checkBoard)
    IN  IF kingPos = nullPos THEN FALSE
        ELSE checkSquareUnderAttack(kingPos, color, checkBoard)

----------------------------------------------------------------------------
(* ChessGame: move generation.  Move lists are sets of positions: the code
   only tests membership (some) and emptiness of the lists it builds. *)

direction(color) == IF color = "white" THEN -1 ELSE 1

\* pawn: one step forward onto an empty square
PawnPush(piece, pos, checkBoard) ==
    {m \in {Pos(pos.row + direction(piece.color), pos.col)} :
        /\ isInBounds(m.row, m.col)
        /\ At(checkBoard, m) = null}

\* pawn: diagonal step onto a piece of the other color
PawnCaptures(piece, pos, checkBoard) ==
    {m \in {Pos(pos.row + direction(piece.color), pos.col + offset) : offset \in {-1, 1}} :
        /\ isInBounds(m.row, m.col)
        /\ At(checkBoard, m) # null
        /\ At(checkBoard, m).color # piece.color}

\* knight and king: fixed offsets, on the board, not onto an own piece
OffsetMoves(piece, pos, checkBoard, offsets) ==
    {m \in {Pos(pos.row + off[1], pos.col + off[2]) : off \in offsets} :
        /\ isInBounds(m.row, m.col)
        /\ At(checkBoard, m).color # piece.color}

\* queen, rook, bishop: along each ray up to and including the first piece
\* when it is not an own piece
RayMoves(piece, pos, checkBoard, directions) ==
    UNION {{Pos(pos.row + k * d[1], pos.col + k * d[2]) :
               k \in {n \in 1..7 :
                         /\ RayReaches(checkBoard, pos, d, n)
                         /\ checkBoard[pos.row + n * d[1]][pos.col + n * d[2]].color
                                # piece.color}} :
           d \in directions}

\* "Simple version of getValidMoves": pawns (one step, captures) and kings
\* only; every other piece type yields no move.
basicGetValidMoves(piece, pos, checkBoard) ==
    IF piece.type = "pawn"
    THEN PawnPush(piece, pos, checkBoard) \cup PawnCaptures(piece, pos, checkBoard)
    ELSE IF piece.type = "king"
    THEN OffsetMoves(piece, pos, checkBoard, kingOffsets)
    ELSE {}

startRow(color) == IF color = "white" THEN 6 ELSE 1

getBasicMoves(piece, pos, checkBoard) ==
    IF piece.type = "pawn" THEN
        LET one == PawnPush(piece, pos, checkBoard)
            two == {m \in {Pos(pos.row + 2 * direction(piece.color), pos.col)} :
                       /\ one # {}
                       /\ pos.row = startRow(piece.color)
                       /\ isInBounds(m.row, m.col)
                       /\ At(checkBoard, m) = null}
        IN  one \cup two \cup PawnCaptures(piece, pos, checkBoard)
    ELSE IF piece.type = "knight" THEN OffsetMoves(piece, pos, checkBoard, knightOffsets)
    ELSE IF piece.type = "king" THEN OffsetMoves(piece, pos, checkBoard, kingOffsets)
    ELSE IF piece.type = "rook" THEN RayMoves(piece, pos, checkBoard, rookDirections)
    ELSE IF piece.type = "bishop" THEN RayMoves(piece, pos, checkBoard, bishopDirections)
    ELSE IF piece.type = "queen"
    THEN RayMoves(piece, pos, checkBoard, rookDirections \cup bishopDirections)
    ELSE {}

isSquareUnderAttack(pos, defenderColor, checkBoard) ==
    checkSquareUnderAttack(pos, defenderColor, checkBoard)

enPassantRow(color) == IF color = "white" THEN 3 ELSE 4

\* s is the state the component rendered with (enPassantTarget, hasMoved, ...
\* are read from the closure, not from the board handed in).
getEnPassantMoves(s, piece, pos) ==
    IF /\ piece.type = "pawn"
       /\ s.enPassantTarget # nullPos
       /\ pos.row = enPassantRow(piece.color)
       /\ Abs(pos.col - s.enPassantTarget.col) = 1
    THEN {Pos(pos.row + direction(piece.color), s.enPassantTarget.col)}
    ELSE {}

homeRow(color) == IF color = "white" THEN 7 ELSE 0

HasRook(checkBoard, row, col, color) == checkBoard[row][col] = Piece("rook", color)

getCastlingMoves(s, piece, pos, checkBoard) ==
    IF /\ piece.type = "king"
       /\ ~s.hasMoved[piece.color \o "-king"]
       /\ ~isInCheck(piece.color, checkBoard)
    THEN
        LET row == homeRow(piece.color)
            kingside ==
                /\ ~s.hasMoved[piece.color \o "-rook-right"]
                /\ HasRook(checkBoard, row, 7, piece.color)
                /\ checkBoard[row][5] = null /\ checkBoard[row][6] = null
                /\ ~isSquareUnderAttack(Pos(row, 5), piece.color, checkBoard)
                /\ ~isSquareUnderAttack(Pos(row, 6), piece.color, checkBoard)
            queenside ==
                /\ ~s.hasMoved[piece.color \o "-rook-left"]
                /\ HasRook(checkBoard, row, 0, piece.color)
                /\ checkBoard[row][1] = null /\ checkBoard[row][2] = null
                /\ checkBoard[row][3] = null
                /\ ~isSquareUnderAttack(Pos(row, 2), piece.color, checkBoard)
                /\ ~isSquareUnderAttack(Pos(row, 3), piece.color, checkBoard)
        IN  (IF kingside THEN {Pos(row, 6)} ELSE {})
            \cup (IF queenside THEN {Pos(row, 2)} ELSE {})
    ELSE {}

getValidMoves(s, piece, pos, checkBoard) ==
    getBasicMoves(piece, pos, checkBoard)
    \cup (IF piece.type = "pawn" THEN getEnPassantMoves(s, piece, pos) ELSE {})
    \cup (IF piece.type = "king" THEN getCastlingMoves(s, piece, pos, checkBoard) ELSE {})

\* The en passant test of wouldBeInCheck and handleMove.
IsEnPassantTo(s, piece, to) ==
    /\ piece.type = "pawn"
    /\ s.enPassantTarget # nullPos
    /\ to.col = s.enPassantTarget.col
    /\ to.row = (IF piece.color = "white" THEN s.enPassantTarget.row - 1
                 ELSE s.enPassantTarget.row + 1)

IsCastlingStep(piece, from, to) ==
    piece.type = "king" /\ Abs(to.col - from.col) = 2

\* testBoard of wouldBeInCheck
simulateMove(s, from, to, checkBoard) ==
    LET movingPiece == At(checkBoard, from)
        moved == Put(Put(checkBoard, to, movingPiece), from, null)
    IN  IF IsCastlingStep(movingPiece, from, to) THEN
            LET rookCol == IF to.col > from.col THEN 7 ELSE 0
                newRookCol == IF to.col > from.col THEN 5 ELSE 3
            IN  Put(Put(moved, Pos(from.row, newRookCol), moved[from.row][rookCol]),
                    Pos(from.row, rookCol), null)
        ELSE IF IsEnPassantTo(s, movingPiece, to) THEN Put(moved, s.enPassantTarget, null)
        ELSE moved

wouldBeInCheck(s, from, to, color, checkBoard) ==
    LET movingPiece == At(checkBoard, from)
    IN  IF movingPiece = null THEN FALSE
        ELSE IF IsCastlingStep(movingPiece, from, to) /\ isInCheck(color, checkBoard)
        THEN TRUE
        ELSE
            LET testBoard == simulateMove(s, from, to, checkBoard)
                kingPos == IF movingPiece.type = "king" THEN to
                           ELSE findKing(color, testBoard)
            IN  IF kingPos = nullPos THEN FALSE
                ELSE checkSquareUnderAttack(kingPos, color, testBoard)

PiecesOf(color, checkBoard) == {p \in Squares : At(checkBoard, p).color = color}

isInCheckmate(s, color, checkBoard) ==
    /\ isInCheck(color, checkBoard)
    /\ \A p \in PiecesOf(color, checkBoard) :
          \A move \in basicGetValidMoves(At(checkBoard, p), p, checkBoard) :
              wouldBeInCheck(s, p, move, color, checkBoard)

isStalemate(s, color, checkBoard) ==
    /\ ~isInCheck(color, checkBoard)
    /\ \A p \in PiecesOf(color, checkBoard) :
          \A move \in getValidMoves(s, At(checkBoard, p), p, checkBoard) :
              wouldBeInCheck(s, p, move, color, checkBoard)

----------------------------------------------------------------------------
(* Position signatures and draw detection *)

\* piece.type[0], 'n' for the knight, upper case for white, '.' for empty
pieceLetter(piece) ==
    IF piece = null THEN "."
    ELSE LET letter == IF piece.type = "knight" THEN "n"
                       ELSE IF piece.type = "pawn" THEN "p"
                       ELSE IF piece.type = "bishop" THEN "b"
                       ELSE IF piece.type = "rook" THEN "r"
                       ELSE IF piece.type = "queen" THEN "q"
                       ELSE "k"
             upper == IF letter = "n" THEN "N"
                      ELSE IF letter = "p" THEN "P"
                      ELSE IF letter = "b" THEN "B"
                      ELSE IF letter = "r" THEN "R"
                      ELSE IF letter = "q" THEN "Q"
                      ELSE "K"
         IN  IF piece.color = "white" THEN upper ELSE letter

castlingOptions(hasMoved) ==
    (IF ~hasMoved["white-king"] /\ ~hasMoved["white-rook-right"] THEN "K" ELSE "")
    \o (IF ~hasMoved["white-king"] /\ ~hasMoved["white-rook-left"] THEN "Q" ELSE "")
    \o (IF ~hasMoved["black-king"] /\ ~hasMoved["black-rook-right"] THEN "k" ELSE "")
    \o (IF ~hasMoved["black-king"] /\ ~hasMoved["black-rook-left"] THEN "q" ELSE "")

\* `${position}|${positionPlayer}|${castlingOptions}`: the three parts, the
\* first one as the rows of letters that join('/') separates.
generateBoardPosition(positionBoard, positionPlayer, hasMoved) ==
    <<[r \in 0..7 |-> [c \in 0..7 |-> pieceLetter(positionBoard[r][c])]],
      positionPlayer,
      castlingOptions(hasMoved)>>

\* The component's isThreefoldRepetition: the signature of the rendered
\* board and player, counted as 1 plus its occurrences in boardPositions.
isThreefoldRepetition(s) ==
    LET currentPosition == generateBoardPosition(s.board, s.currentPlayer, s.hasMoved)
        seen == {i \in 1..Len(s.boardPositions) : s.boardPositions[i] = currentPosition}
    IN  1 + Cardinality(seen) >= 3

isFiftyMoveRule(s) == s.halfMoveCount >= 100

isDraw(s, checkBoard, checkPlayer) ==
    \/ isStalemate(s, checkPlayer, checkBoard)
    \/ isThreefoldRepetition(s)
    \/ isFiftyMoveRule(s)

----------------------------------------------------------------------------
(* useChessReducer: chessReducer *)

\* A faulty variant of nextPlayerOf that leaves the turn where it is.
samePlayerOf(state) == state.currentPlayer

nextPlayerOf(state) == IF state.currentPlayer = "white" THEN "black" ELSE "white"

\* A faulty variant of MOVE_PIECE that never resets the halfmove clock.
MOVE_PIECE_ClockRunsOn(state, action) ==
    LET from == action.from
        to == action.to
        piece == At(state.board, from)
        newBoard == Put(Put(state.board, to, piece), from, null)
        pieceKey == IF piece.type = "king" THEN "king"
                    ELSE "rook-" \o (IF from.col = 0 THEN "left" ELSE "right")
        newHasMoved == IF piece.type = "king" \/ piece.type = "rook"
                       THEN [state.hasMoved EXCEPT ![piece.color \o "-" \o pieceKey] = TRUE]
                       ELSE state.hasMoved
        newHalfMoveCount == state.halfMoveCount + 1
        newEnPassantTarget == IF piece.type = "pawn" /\ Abs(to.row - from.row) = 2
                              THEN Pos((to.row + from.row) \div 2, to.col)
                              ELSE nullPos
        nextPlayer == nextPlayerOf(state)
    IN  IF piece = null THEN state
        ELSE [state EXCEPT
                !.board = newBoard,
                !.currentPlayer = nextPlayer,
                !.selectedPiece = nullPos,
                !.validMoves = {},
                !.hasMoved = newHasMoved,
                !.enPassantTarget = newEnPassantTarget,
                !.moveHistory = Append(state.moveHistory, action.notation),
                !.boardPositions = Append(state.boardPositions,
                                          generateBoardPosition(newBoard, nextPlayer, newHasMoved)),
                !.halfMoveCount = newHalfMoveCount]

MOVE_PIECE(state, action) ==
    LET from == action.from
        to == action.to
        piece == At(state.board, from)
        newBoard == Put(Put(state.board, to, piece), from, null)
        pieceKey == IF piece.type = "king" THEN "king"
                    ELSE "rook-" \o (IF from.col = 0 THEN "left" ELSE "right")
        newHasMoved == IF piece.type = "king" \/ piece.type = "rook"
                       THEN [state.hasMoved EXCEPT ![piece.color \o "-" \o pieceKey] = TRUE]
                       ELSE state.hasMoved
        newHalfMoveCount == IF action.isPawnMove \/ action.isCapture THEN 0
                            ELSE state.halfMoveCount + 1
        newEnPassantTarget == IF piece.type = "pawn" /\ Abs(to.row - from.row) = 2
                              THEN Pos((to.row + from.row) \div 2, to.col)
                              ELSE nullPos
        nextPlayer == nextPlayerOf(state)
    IN  IF piece = null THEN state
        ELSE [state EXCEPT
                !.board = newBoard,
                !.currentPlayer = nextPlayer,
                !.selectedPiece = nullPos,
                !.validMoves = {},
                !.hasMoved = newHasMoved,
                !.enPassantTarget = newEnPassantTarget,
                !.moveHistory = Append(state.moveHistory, action.notation),
                !.boardPositions = Append(state.boardPositions,
                                          generateBoardPosition(newBoard, nextPlayer, newHasMoved)),
                !.halfMoveCount = newHalfMoveCount]

\* A faulty variant of HANDLE_CASTLING that moves the king and leaves the
\* rook where it is.
HANDLE_CASTLING_KingOnly(state, action) ==
    LET king == At(state.board, action.kingFrom)
        newBoard == Put(Put(state.board, action.kingTo, king), action.kingFrom, null)
        nextPlayer == nextPlayerOf(state)
    IN  IF king = null THEN state
        ELSE [state EXCEPT
                !.board = newBoard,
                !.currentPlayer = nextPlayer,
                !.selectedPiece = nullPos,
                !.validMoves = {},
                !.hasMoved = [state.hasMoved EXCEPT ![action.kingColor \o "-king"] = TRUE],
                !.moveHistory = Append(state.moveHistory, action.notation),
                !.boardPositions = Append(state.boardPositions,
                                          generateBoardPosition(newBoard, nextPlayer,
                                                                state.hasMoved)),
                !.halfMoveCount = state.halfMoveCount + 1,
                !.enPassantTarget = nullPos]

HANDLE_CASTLING(state, action) ==
    LET king == At(state.board, action.kingFrom)
        rook == At(state.board, action.rookFrom)
        newBoard == Put(Put(Put(Put(state.board, action.kingTo, king), action.kingFrom, null),
                            action.rookTo, rook), action.rookFrom, null)
        isKingside == action.kingTo.col > action.kingFrom.col
        newHasMoved == [state.hasMoved EXCEPT
                          ![action.kingColor \o "-king"] = TRUE,
                          ![action.kingColor \o "-rook-"
                              \o (IF isKingside THEN "right" ELSE "left")] = TRUE]
        nextPlayer == nextPlayerOf(state)
    IN  IF king = null \/ rook = null THEN state
        ELSE [state EXCEPT
                !.board = newBoard,
                !.currentPlayer = nextPlayer,
                !.selectedPiece = nullPos,
                !.validMoves = {},
                !.hasMoved = newHasMoved,
                !.moveHistory = Append(state.moveHistory, action.notation),
                !.boardPositions = Append(state.boardPositions,
                                          generateBoardPosition(newBoard, nextPlayer, newHasMoved)),
                !.halfMoveCount = state.halfMoveCount + 1,
                !.enPassantTarget = nullPos]

HANDLE_EN_PASSANT(state, action) ==
    LET pawn == At(state.board, action.from)
        newBoard == Put(Put(Put(state.board, action.to, pawn), action.from, null),
                        action.capturedPawnPosition, null)
        nextPlayer == nextPlayerOf(state)
    IN  IF pawn = null THEN state
        ELSE [state EXCEPT
                !.board = newBoard,
                !.currentPlayer = nextPlayer,
                !.selectedPiece = nullPos,
                !.validMoves = {},
                !.enPassantTarget = nullPos,
                !.moveHistory = Append(state.moveHistory, action.notation),
                !.boardPositions = Append(state.boardPositions,
                                          generateBoardPosition(newBoard, nextPlayer, state.hasMoved)),
                !.halfMoveCount = 0]

SET_PROMOTION_PAWN(state, action) ==
    LET newBoard == IF state.selectedPiece # nullPos
                    THEN Put(state.board, state.selectedPiece, null)
                    ELSE state.board
    IN  [state EXCEPT
            !.board = newBoard,
            !.promotionPawn = [position |-> action.position, color |-> action.color],
            !.selectedPiece = nullPos,
            !.validMoves = {},
            !.processingAction = TRUE]

PROMOTE_PAWN(state, action) ==
    LET position == state.promotionPawn.position
        color == state.promotionPawn.color
        newBoard == Put(state.board, position, Piece(action.pieceType, color))
        nextPlayer == nextPlayerOf(state)
    IN  IF state.promotionPawn = noPromotion THEN state
        ELSE [state EXCEPT
                !.board = newBoard,
                !.currentPlayer = nextPlayer,
                !.promotionPawn = noPromotion,
                !.halfMoveCount = 0,
                !.boardPositions = Append(state.boardPositions,
                                          generateBoardPosition(newBoard, nextPlayer, state.hasMoved)),
                !.processingAction = FALSE]

SELECT_PIECE(state, action) ==
    IF \/ state.gameState.isOver
       \/ (state.isAIEnabled /\ state.currentPlayer = "black")
       \/ state.isAIThinking
       \/ state.processingAction
    THEN state
    ELSE [state EXCEPT !.selectedPiece = action.position,
                       !.validMoves = action.validMoves]

NEW_GAME(state) ==
    [initialChessState EXCEPT
        !.isAIEnabled = state.isAIEnabled,
        !.processingAction = FALSE,
        !.isAIThinking = FALSE]

chessReducer(state, action) ==
    CASE action.type = "SELECT_PIECE" -> SELECT_PIECE(state, action)
      [] action.type = "DESELECT_PIECE" ->
            [state EXCEPT !.selectedPiece = nullPos, !.validMoves = {}]
      [] action.type = "MOVE_PIECE" -> MOVE_PIECE(state, action)
      [] action.type = "HANDLE_CASTLING" -> HANDLE_CASTLING(state, action)
      [] action.type = "HANDLE_EN_PASSANT" -> HANDLE_EN_PASSANT(state, action)
      [] action.type = "SET_PROMOTION_PAWN" -> SET_PROMOTION_PAWN(state, action)
      [] action.type = "PROMOTE_PAWN" -> PROMOTE_PAWN(state, action)
      [] action.type = "SET_GAME_STATE" -> [state EXCEPT !.gameState = action.gameState]
      [] action.type = "NEW_GAME" -> NEW_GAME(state)
      [] action.type = "TOGGLE_AI" -> [state EXCEPT !.isAIEnabled = action.enabled]
      [] action.type = "SET_AI_THINKING" -> [state EXCEPT !.isAIThinking = action.isThinking]
      [] action.type = "SET_PROCESSING" -> [state EXCEPT !.processingAction = action.isProcessing]
      [] OTHER -> state

\* The actions one handler dispatches are queued and reduced in order.
RECURSIVE reduceAll(_, _)
reduceAll(state, actions) ==
    IF actions = << >> THEN state
    ELSE reduceAll(chessReducer(state, Head(actions)), Tail(actions))

----------------------------------------------------------------------------
(* ChessGame: the handlers.  Each yields the sequence of reducer actions it
   dispatches; s is the state of the render whose closure the handler is. *)

files == <<"a", "b", "c", "d", "e", "f", "g", "h">>

ranks == <<"8", "7", "6", "5", "4", "3", "2", "1">>

generateMoveNotation(piece, from, to, isCapture) ==
    IF piece.type = "king" /\ Abs(to.col - from.col) = 2
    THEN (IF to.col > from.col THEN "O-O" ELSE "O-O-O")
    ELSE (IF piece.type = "pawn" THEN ""
          ELSE IF piece.type = "knight" THEN "N"
          ELSE pieceLetter(Piece(piece.type, "white")))
         \o (IF piece.type = "pawn" /\ isCapture THEN files[from.col + 1] ELSE "")
         \o (IF isCapture THEN "x" ELSE "")
         \o files[to.col + 1] \o ranks[to.row + 1]

setGameState(gs) == [type |-> "SET_GAME_STATE", gameState |-> gs]

setProcessing(b) == [type |-> "SET_PROCESSING", isProcessing |-> b]

\* "Check for check/checkmate/stalemate" and the draw branch, shared by
\* handleMove and handlePromotion: the SET_GAME_STATE action computed for
\* newBoard from the closure s.
statusAction(s, newBoard) ==
    LET nextPlayer == nextPlayerOf(s)
    IN  IF isInCheck(nextPlayer, newBoard) THEN
            IF isInCheckmate(s, nextPlayer, newBoard)
            THEN setGameState([isOver |-> TRUE, winner |-> s.currentPlayer,
                               message |-> "Checkmate! " \o s.currentPlayer \o " wins!"])
            ELSE setGameState([s.gameState EXCEPT !.message = nextPlayer \o " is in check!"])
        ELSE IF isDraw(s, newBoard, nextPlayer) THEN
            setGameState([isOver |-> TRUE, winner |-> "none",
                          message |-> IF isStalemate(s, nextPlayer, newBoard)
                                      THEN "Stalemate! Game is a draw!"
                                      ELSE IF isThreefoldRepetition(s)
                                      THEN "Draw by threefold repetition!"
                                      ELSE IF isFiftyMoveRule(s)
                                      THEN "Draw by 50-move rule!"
                                      ELSE "Draw!"])
        ELSE setGameState([s.gameState EXCEPT !.message = ""])

\* The board handleMove builds "for state checks" after dispatching.
boardAfterMove(s, from, to) ==
    LET piece == At(s.board, from)
        moved == Put(Put(s.board, to, piece), from, null)
    IN  IF IsEnPassantTo(s, piece, to) THEN Put(moved, s.enPassantTarget, null)
        ELSE moved

handleMove(s, from, to) ==
    LET piece == At(s.board, from)
        isValidMove == to \in getValidMoves(s, piece, from, s.board)
        isCapture == At(s.board, to) # null
        isPawnMove == piece.type = "pawn"
        moveNotation == generateMoveNotation(piece, from, to, isCapture)
        isKingside == to.col > from.col
        movePiece == [type |-> "MOVE_PIECE", from |-> from, to |-> to,
                      notation |-> moveNotation, isPawnMove |-> isPawnMove,
                      isCapture |-> isCapture]
        status == statusAction(s, boardAfterMove(s, from, to))
    IN  IF piece = null THEN << >>
        ELSE IF ~isValidMove \/ wouldBeInCheck(s, from, to, s.currentPlayer, s.board)
        THEN << >>
        ELSE IF IsCastlingStep(piece, from, to) THEN
            <<[type |-> "HANDLE_CASTLING", kingFrom |-> from, kingTo |-> to,
               rookFrom |-> Pos(from.row, IF isKingside THEN 7 ELSE 0),
               rookTo |-> Pos(from.row, IF isKingside THEN 5 ELSE 3),
               kingColor |-> piece.color, notation |-> moveNotation],
              status>>
        ELSE IF piece.type = "pawn" /\ IsEnPassantTo(s, piece, to) THEN
            <<[type |-> "HANDLE_EN_PASSANT", from |-> from, to |-> to,
               capturedPawnPosition |-> s.enPassantTarget, notation |-> moveNotation],
              status>>
        ELSE IF piece.type = "pawn" /\ (to.row = 0 \/ to.row = 7) THEN
            <<[type |-> "SET_PROMOTION_PAWN", position |-> to, color |-> piece.color]>>
        ELSE <<movePiece, status>>

handlePromotion(s, pieceType) ==
    IF s.promotionPawn = noPromotion THEN << >>
    ELSE <<[type |-> "PROMOTE_PAWN", pieceType |-> pieceType],
           statusAction(s, Put(s.board, s.promotionPawn.position,
                               Piece(pieceType, s.promotionPawn.color)))>>

\* The finally block of makeAIMove and of handleGetHint: the flags are reset
\* if the ref still holds the request's own controller.
requestSettles(isCurrent) ==
    IF isCurrent
    THEN <<[type |-> "SET_AI_THINKING", isThinking |-> FALSE], setProcessing(FALSE)>>
    ELSE << >>

\* What makeAIMove dispatches once its signal has aborted: the rejected wait
\* or the aborted check leads to the finally block.
makeAIMoveAborted(isCurrent) == requestSettles(isCurrent)

\* The effect that starts an AI move.  Its own two dispatches change its
\* dependencies, so its cleanup aborts the request it has just started: the
\* request delivers no move and, the controller being cleared, its finally
\* block resets neither flag.
aiMoveEffect(s) ==
    IF /\ s.isAIEnabled /\ s.currentPlayer = "black" /\ ~s.gameState.isOver
       /\ s.promotionPawn = noPromotion /\ ~s.processingAction /\ ~s.isAIThinking
    THEN <<setProcessing(TRUE), [type |-> "SET_AI_THINKING", isThinking |-> TRUE]>>
    ELSE << >>

resetGameState(s) ==
    (IF s.processingAction THEN <<setProcessing(FALSE)>> ELSE << >>)
    \o (IF s.isAIThinking THEN <<[type |-> "SET_AI_THINKING", isThinking |-> FALSE]>>
        ELSE << >>)
    \o (IF s.promotionPawn # noPromotion
        THEN <<[type |-> "PROMOTE_PAWN", pieceType |-> "queen"]>> ELSE << >>)
    \o (IF s.selectedPiece # nullPos THEN <<[type |-> "DESELECT_PIECE"]>> ELSE << >>)

\* The legal moves handleSquareClick computes for the piece it selects.
legalMoves(s, piece, position) ==
    {move \in getValidMoves(s, piece, position, s.board) :
        ~wouldBeInCheck(s, position, move, s.currentPlayer, s.board)}

selectPiece(s, position) ==
    [type |-> "SELECT_PIECE", position |-> position, piece |-> At(s.board, position),
     validMoves |-> legalMoves(s, At(s.board, position), position)]

\* handleGetHint up to its first await; loading is the hook's loading flag.
handleGetHint(s, loading) ==
    IF s.gameState.isOver \/ loading \/ s.isAIThinking \/ s.processingAction
    THEN << >>
    ELSE <<setProcessing(TRUE), [type |-> "SET_AI_THINKING", isThinking |-> TRUE]>>

\* A request that has reached its end: nothing refers to the render it was
\* made in any more.
finished(request) == [request EXCEPT !.pc = "done", !.render = initialChessState]

\* A faulty variant of abortHint that leaves the request in the ref running.
abortNothing(requests, current) == requests

\* aiHintAbortController.current.abort(), if the ref holds a request: its
\* pending promise is rejected and the request goes to its finally block.
abortHint(requests, current) ==
    IF current = 0 THEN requests
    ELSE [requests EXCEPT ![current] = finished([requests[current] EXCEPT !.aborted = TRUE])]

\* handleGetHint when getHint has returned hintPosition: the hint is shown
\* among the valid moves of the render the request was made in.
hintReceived(render, hintPosition) ==
    <<[type |-> "SELECT_PIECE",
       position |-> IF render.selectedPiece # nullPos THEN render.selectedPiece
                    ELSE Pos(0, 0),
       piece |-> Piece("pawn", render.currentPlayer),
       validMoves |-> render.validMoves \cup {hintPosition}]>>

\* handleGetHint when the hint has been shown for its time: the selection of
\* the render the request was made in is restored.
hintDisplayed(render) ==
    IF render.selectedPiece # nullPos /\ At(render.board, render.selectedPiece) # null
    THEN <<selectPiece(render, render.selectedPiece)>>
    ELSE <<[type |-> "DESELECT_PIECE"]>>

\* A faulty variant of hintAborted that restores the selection all the same.
hintAbortedRestores(render, isCurrent) ==
    hintDisplayed(render) \o requestSettles(isCurrent)

\* What handleGetHint dispatches once its signal has aborted: the rejected
\* race or display wait, or the aborted check, leads to the finally block.
hintAborted(render, isCurrent) == requestSettles(isCurrent)

\* A faulty variant of handleSquareClick without the early return for a
\* finished game, a thinking AI or an operation in progress.
handleSquareClickUngated(s, row, col) ==
    LET piece == s.board[row][col]
        body == IF s.selectedPiece # nullPos THEN
                    IF s.selectedPiece.row # row \/ s.selectedPiece.col # col
                    THEN handleMove(s, s.selectedPiece, Pos(row, col))
                    ELSE <<[type |-> "DESELECT_PIECE"]>>
                ELSE IF piece.color = s.currentPlayer
                THEN <<selectPiece(s, Pos(row, col))>>
                ELSE << >>
    IN  <<setProcessing(TRUE)>> \o body \o <<setProcessing(FALSE)>>

handleSquareClick(s, row, col) ==
    LET stuck == s.processingAction /\ s.promotionPawn = noPromotion /\ ~s.isAIThinking
        reset == IF stuck THEN resetGameState(s) ELSE << >>
        piece == s.board[row][col]
        body == IF s.selectedPiece # nullPos THEN
                    IF s.selectedPiece.row # row \/ s.selectedPiece.col # col
                    THEN handleMove(s, s.selectedPiece, Pos(row, col))
                    ELSE <<[type |-> "DESELECT_PIECE"]>>
                ELSE IF piece.color = s.currentPlayer
                THEN <<selectPiece(s, Pos(row, col))>>
                ELSE << >>
    IN  IF \/ s.gameState.isOver
           \/ s.isAIThinking
           \/ s.processingAction
           \/ (s.currentPlayer = "black" /\ s.isAIEnabled)
        THEN reset
        ELSE reset \o <<setProcessing(TRUE)>> \o body \o <<setProcessing(FALSE)>>

----------------------------------------------------------------------------
(* The component as a state machine *)

VARIABLES
    board, currentPlayer, selectedPiece, validMoves, hasMoved, enPassantTarget,
    moveHistory, promotionPawn, gameState, halfMoveCount, boardPositions,
    isAIEnabled, isAIThinking, processingAction,
    last,   \* the handler that ran last, its arguments and the actions it dispatched
    cleared, \* history: the castling rights <<color, side>> the rules have cleared
    line,   \* which of the input lines below the clicks of this game are drawn from
    aiHintAbortController, \* the hint request the ref holds, 0 for null
    hintRequests,          \* the hint requests made, in the order they were made
    \* StockfishEngine (src/ai/stockfish.ts)
    worker, initialized, isReady, commandQueue, messageCallbacks,
    posted,         \* commands posted to the worker that it has not read yet
    enginePosition, \* the position the worker was last given
    searching,      \* engine.searching of the worker
    timers,         \* the timers of each "go" the worker has processed
    emitted,        \* history: the number of bestmove lines the worker has sent
    stops,          \* the number of calls of StockfishEngine.stop
    messages,       \* lines the worker has sent that handleMessage has not seen yet
    calls,          \* the requests made to the engine, in the order they were made
    \* The conversions (FEN, UCI move tokens)
    input,          \* the argument of the conversion made last
    output,         \* the conversion made last and what it returned
    \* Move generation of components/Chess/ChessGame.tsx
    callStack,      \* the calls of move generation that have not returned
    \* The start of StockfishEngine, call by call (src/ai/stockfish.ts)
    inits,          \* the invocations of init, each with the place it has reached
    workers,        \* the number of workers created
    submitted,      \* history: the commands passed to sendCommand, in order
    reached         \* history: the commands posted to a worker, in order

gameVars ==
    <<board, currentPlayer, selectedPiece, validMoves, hasMoved, enPassantTarget,
      moveHistory, promotionPawn, gameState, halfMoveCount, boardPositions,
      isAIEnabled, isAIThinking, processingAction, last, cleared, line,
      aiHintAbortController, hintRequests>>

hintVars == <<aiHintAbortController, hintRequests>>

engineVars ==
    <<worker, initialized, isReady, commandQueue, messageCallbacks, posted,
      enginePosition, searching, timers, emitted, stops, messages, calls>>

initVars == <<inits, workers, submitted, reached>>

codecVars == <<input, output, callStack, initVars>>

vars == <<gameVars, engineVars, codecVars>>

\* The state of the current render.
state ==
    [board            |-> board,
     currentPlayer    |-> currentPlayer,
     selectedPiece    |-> selectedPiece,
     validMoves       |-> validMoves,
     hasMoved         |-> hasMoved,
     enPassantTarget  |-> enPassantTarget,
     moveHistory      |-> moveHistory,
     promotionPawn    |-> promotionPawn,
     gameState        |-> gameState,
     halfMoveCount    |-> halfMoveCount,
     boardPositions   |-> boardPositions,
     isAIEnabled      |-> isAIEnabled,
     isAIThinking     |-> isAIThinking,
     processingAction |-> processingAction]

\* The next render has the state ns.
Becomes(ns) ==
    /\ board' = ns.board
    /\ currentPlayer' = ns.currentPlayer
    /\ selectedPiece' = ns.selectedPiece
    /\ validMoves' = ns.validMoves
    /\ hasMoved' = ns.hasMoved
    /\ enPassantTarget' = ns.enPassantTarget
    /\ moveHistory' = ns.moveHistory
    /\ promotionPawn' = ns.promotionPawn
    /\ gameState' = ns.gameState
    /\ halfMoveCount' = ns.halfMoveCount
    /\ boardPositions' = ns.boardPositions
    /\ isAIEnabled' = ns.isAIEnabled
    /\ isAIThinking' = ns.isAIThinking
    /\ processingAction' = ns.processingAction

\* The render that follows a handler's dispatches, with the effects it runs.
Dispatch(actions) ==
    LET reduced == reduceAll(state, actions)
    IN  Becomes(reduceAll(reduced, aiMoveEffect(reduced) \o makeAIMoveAborted(FALSE)))

typesOf(actions) == [i \in 1..Len(actions) |-> actions[i].type]

\* The castling rights that cannot exist on the board b: the king is off its
\* home square, or the corner does not hold the side's rook (it has moved or
\* has been captured there).
clearedOn(b) ==
    {cs \in {"white", "black"} \X {"left", "right"} :
        \/ b[homeRow(cs[1])][4] # Piece("king", cs[1])
        \/ b[homeRow(cs[1])][IF cs[2] = "left" THEN 0 ELSE 7] # Piece("rook", cs[1])}

\* The history variables after a handler has run; a new game starts the
\* history of cleared rights afresh.
\* aborted: the kinds of request whose signal aborted in this step, the AI
\* move request that the effect started after the handler included; settled:
\* what those requests dispatched after the abort.
RanAborting(op, from, to, actions, aborting, hintSettled) ==
    LET effect == aiMoveEffect(reduceAll(state, actions \o hintSettled))
    IN  /\ last' = [op |-> op, from |-> from, to |-> to, did |-> typesOf(actions),
                    effect |-> typesOf(effect),
                    aborted |-> (IF aborting THEN {"hint"} ELSE {})
                                \cup (IF effect # << >> THEN {"aiMove"} ELSE {}),
                    settled |-> typesOf(hintSettled
                                        \o (IF effect # << >> THEN makeAIMoveAborted(FALSE)
                                            ELSE << >>))]
        /\ cleared' = (IF \E i \in DOMAIN actions : actions[i].type = "NEW_GAME"
                       THEN {} ELSE cleared) \cup clearedOn(board')
        /\ UNCHANGED <<engineVars, codecVars>>

Ran(op, from, to, actions) ==
    /\ RanAborting(op, from, to, actions, FALSE, << >>)
    /\ UNCHANGED hintVars

----------------------------------------------------------------------------
(* Inputs.  The squares a game's clicks are drawn from follow one of a few
   lines of play from the initial position: at each ply the squares of the
   moves listed for it, and after the last listed ply, for MaxFree more
   plies, every square of the line's free set. *)

fileCol(f) ==
    CASE f = "a" -> 0 [] f = "b" -> 1 [] f = "c" -> 2 [] f = "d" -> 3
      [] f = "e" -> 4 [] f = "f" -> 5 [] f = "g" -> 6 [] f = "h" -> 7

\* The square with the given file letter and rank number.
Sq(f, r) == Pos(8 - r, fileCol(f))

Mv(f1, r1, f2, r2) == <<Sq(f1, r1), Sq(f2, r2)>>

MaxFree == 1

FoolsMate ==
    <<{Mv("f", 2, "f", 3), Mv("e", 2, "e", 5)}, {Mv("e", 7, "e", 5)},
      {Mv("g", 2, "g", 4)}, {Mv("d", 8, "h", 4), Mv("d", 8, "g", 5)}>>

QueenTakesE5 ==
    <<{Mv("e", 2, "e", 4)}, {Mv("e", 7, "e", 5)}, {Mv("d", 1, "h", 5)},
      {Mv("b", 8, "c", 6)}, {Mv("h", 5, "e", 5), Mv("h", 5, "f", 7)}>>

EnPassantLine ==
    <<{Mv("e", 2, "e", 4)}, {Mv("a", 7, "a", 6)}, {Mv("e", 4, "e", 5)},
      {Mv("d", 7, "d", 5), Mv("d", 7, "d", 6)},
      {Mv("e", 5, "d", 6), Mv("e", 5, "e", 6)}>>

KingWalk ==
    <<{Mv("e", 2, "e", 4)}, {Mv("d", 7, "d", 5)}, {Mv("e", 1, "e", 2)},
      {Mv("d", 5, "d", 4), Mv("c", 8, "g", 4)},
      {Mv("e", 2, "e", 3), Mv("e", 2, "d", 3), Mv("e", 2, "e", 1), Mv("f", 2, "f", 3)}>>

CastleShort ==
    <<{Mv("g", 1, "f", 3)}, {Mv("a", 7, "a", 6)}, {Mv("e", 2, "e", 4)},
      {Mv("a", 6, "a", 5)}, {Mv("f", 1, "e", 2)}, {Mv("a", 5, "a", 4)},
      {Mv("e", 1, "g", 1), Mv("h", 1, "g", 1), Mv("e", 1, "f", 1)},
      {Mv("b", 7, "b", 6)},
      {Mv("g", 1, "h", 1), Mv("f", 1, "e", 1), Mv("f", 1, "g", 1)},
      {Mv("b", 6, "b", 5)},
      {Mv("e", 1, "g", 1), Mv("e", 1, "f", 1)}>>

CastleThroughPawn ==
    <<{Mv("g", 1, "f", 3)}, {Mv("h", 7, "h", 5)}, {Mv("e", 2, "e", 4)},
      {Mv("h", 5, "h", 4)}, {Mv("f", 1, "e", 2)}, {Mv("h", 4, "h", 3)},
      {Mv("a", 2, "a", 3)}, {Mv("h", 3, "g", 2)},
      {Mv("e", 1, "g", 1), Mv("e", 1, "f", 1)}>>

PromotionLine ==
    <<{Mv("h", 2, "h", 4)}, {Mv("g", 7, "g", 5)}, {Mv("h", 4, "g", 5)},
      {Mv("h", 7, "h", 6)}, {Mv("g", 5, "h", 6)}, {Mv("b", 7, "b", 6)},
      {Mv("h", 6, "h", 7)}, {Mv("a", 7, "a", 5), Mv("a", 7, "a", 6)},
      {Mv("h", 7, "g", 8), Mv("h", 7, "h", 8)},
      {Mv("a", 5, "a", 4), Mv("e", 8, "f", 8), Mv("h", 8, "g", 8)}>>

RookReplaced ==
    <<{Mv("b", 2, "b", 4)}, {Mv("g", 7, "g", 6)}, {Mv("h", 2, "h", 4)},
      {Mv("f", 8, "g", 7)}, {Mv("b", 1, "a", 3)}, {Mv("g", 7, "a", 1)},
      {Mv("h", 1, "h", 3)}, {Mv("b", 8, "c", 6)}, {Mv("h", 3, "b", 3)},
      {Mv("c", 6, "b", 8)}, {Mv("b", 3, "b", 1)}, {Mv("b", 8, "c", 6)},
      {Mv("b", 1, "a", 1)}, {Mv("c", 6, "b", 8)}, {Mv("c", 1, "b", 2)},
      {Mv("b", 8, "c", 6)}, {Mv("c", 2, "c", 3)}, {Mv("c", 6, "b", 8)},
      {Mv("d", 1, "c", 2)}, {Mv("b", 8, "c", 6)},
      {Mv("e", 1, "c", 1), Mv("e", 1, "d", 1)}>>

BlackPromotion ==
    <<{Mv("a", 2, "a", 3)}, {Mv("h", 7, "h", 5)}, {Mv("a", 3, "a", 4)},
      {Mv("h", 5, "h", 4)}, {Mv("g", 2, "g", 3)}, {Mv("h", 4, "g", 3)},
      {Mv("a", 4, "a", 5)}, {Mv("g", 3, "h", 2)}, {Mv("a", 5, "a", 6)},
      {Mv("h", 2, "g", 1), Mv("b", 7, "a", 6)}>>

KnightShuffle ==
    <<{Mv("g", 1, "f", 3)}, {Mv("g", 8, "f", 6)}, {Mv("f", 3, "g", 1)},
      {Mv("f", 6, "g", 8)}, {Mv("g", 1, "f", 3)}, {Mv("g", 8, "f", 6)},
      {Mv("f", 3, "g", 1)}, {Mv("f", 6, "g", 8)}>>

HundredQuietMoves ==
    <<{Mv("g", 1, "f", 3)}, {Mv("b", 8, "a", 6)}, {Mv("f", 3, "h", 4)},
      {Mv("a", 6, "b", 4)}, {Mv("h", 4, "f", 3)}, {Mv("b", 4, "d", 5)},
      {Mv("b", 1, "a", 3)}, {Mv("d", 5, "b", 4)}, {Mv("f", 3, "g", 5)},
      {Mv("b", 4, "d", 5)}, {Mv("g", 5, "e", 4)}, {Mv("d", 5, "f", 6)},
      {Mv("e", 4, "g", 5)}, {Mv("f", 6, "g", 4)}, {Mv("g", 5, "e", 4)},
      {Mv("g", 8, "h", 6)}, {Mv("e", 4, "c", 5)}, {Mv("g", 4, "f", 6)},
      {Mv("a", 3, "c", 4)}, {Mv("h", 6, "f", 5)}, {Mv("c", 5, "a", 4)},
      {Mv("f", 6, "d", 5)}, {Mv("c", 4, "e", 3)}, {Mv("d", 5, "f", 6)},
      {Mv("a", 4, "c", 3)}, {Mv("f", 6, "e", 4)}, {Mv("e", 3, "g", 4)},
      {Mv("e", 4, "c", 5)}, {Mv("c", 3, "b", 1)}, {Mv("f", 5, "h", 6)},
      {Mv("b", 1, "a", 3)}, {Mv("c", 5, "a", 4)}, {Mv("a", 3, "c", 4)},
      {Mv("h", 6, "g", 8)}, {Mv("c", 4, "a", 3)}, {Mv("g", 8, "f", 6)},
      {Mv("a", 3, "b", 1)}, {Mv("f", 6, "e", 4)}, {Mv("b", 1, "a", 3)},
      {Mv("e", 4, "c", 5)}, {Mv("g", 4, "e", 5)}, {Mv("c", 5, "e", 4)},
      {Mv("e", 5, "f", 3)}, {Mv("e", 4, "f", 6)}, {Mv("f", 3, "d", 4)},
      {Mv("f", 6, "h", 5)}, {Mv("a", 3, "c", 4)}, {Mv("h", 5, "f", 6)},
      {Mv("d", 4, "f", 5)}, {Mv("f", 6, "g", 8)}, {Mv("f", 5, "h", 4)},
      {Mv("g", 8, "h", 6)}, {Mv("c", 4, "a", 3)}, {Mv("h", 6, "f", 5)},
      {Mv("a", 3, "b", 5)}, {Mv("f", 5, "d", 6)}, {Mv("b", 5, "a", 3)},
      {Mv("d", 6, "b", 5)}, {Mv("a", 3, "c", 4)}, {Mv("a", 4, "b", 6)},
      {Mv("h", 4, "f", 5)}, {Mv("b", 6, "a", 4)}, {Mv("f", 5, "g", 3)},
      {Mv("b", 5, "d", 6)}, {Mv("c", 4, "a", 5)}, {Mv("d", 6, "c", 4)},
      {Mv("g", 3, "h", 5)}, {Mv("c", 4, "d", 6)}, {Mv("a", 5, "b", 3)},
      {Mv("d", 6, "b", 5)}, {Mv("b", 3, "a", 5)}, {Mv("a", 4, "b", 6)},
      {Mv("a", 5, "c", 4)}, {Mv("b", 5, "d", 4)}, {Mv("h", 5, "g", 3)},
      {Mv("d", 4, "c", 6)}, {Mv("c", 4, "a", 5)}, {Mv("b", 6, "c", 4)},
      {Mv("a", 5, "b", 3)}, {Mv("c", 6, "b", 4)}, {Mv("b", 3, "d", 4)},
      {Mv("c", 4, "d", 6)}, {Mv("g", 3, "e", 4)}, {Mv("b", 4, "c", 6)},
      {Mv("e", 4, "g", 3)}, {Mv("c", 6, "e", 5)}, {Mv("g", 3, "f", 5)},
      {Mv("e", 5, "g", 4)}, {Mv("f", 5, "h", 4)}, {Mv("d", 6, "e", 4)},
      {Mv("d", 4, "b", 3)}, {Mv("e", 4, "g", 5)}, {Mv("b", 3, "a", 5)},
      {Mv("g", 5, "e", 4)}, {Mv("a", 5, "c", 4)}, {Mv("g", 4, "h", 6)},
      {Mv("c", 4, "a", 5)}, {Mv("e", 4, "g", 5)}, {Mv("a", 5, "c", 4)},
      {Mv("g", 5, "e", 6)}, {Mv("c", 4, "d", 6), Mv("h", 4, "f", 3)}>>

LoydStalemate ==
    <<{Mv("e", 2, "e", 3)}, {Mv("a", 7, "a", 5)}, {Mv("d", 1, "h", 5)},
      {Mv("a", 8, "a", 6)}, {Mv("h", 5, "a", 5)}, {Mv("h", 7, "h", 5)},
      {Mv("h", 2, "h", 4)}, {Mv("a", 6, "h", 6)}, {Mv("a", 5, "c", 7)},
      {Mv("f", 7, "f", 6)}, {Mv("c", 7, "d", 7)}, {Mv("e", 8, "f", 7)},
      {Mv("d", 7, "b", 7)}, {Mv("d", 8, "d", 3)}, {Mv("b", 7, "b", 8)},
      {Mv("d", 3, "h", 7)}, {Mv("b", 8, "c", 8)}, {Mv("f", 7, "g", 6)},
      {Mv("c", 8, "e", 6)}>>

HintGame ==
    <<{Mv("h", 2, "h", 4)}, {Mv("g", 7, "g", 5)}, {Mv("h", 4, "g", 5)},
      {Mv("h", 7, "h", 6)}, {Mv("g", 5, "h", 6)}, {Mv("b", 7, "b", 6)},
      {Mv("h", 6, "h", 7)}, {Mv("a", 7, "a", 5)}, {Mv("h", 7, "g", 8)}>>

Lines ==
    <<FoolsMate, QueenTakesE5, EnPassantLine, KingWalk, CastleShort,
      CastleThroughPawn, PromotionLine, RookReplaced,
      BlackPromotion,
      KnightShuffle,
      HundredQuietMoves,
      LoydStalemate,
      HintGame>>

FreeSquares ==
    <<{Sq("e", 1), Sq("e", 2), Sq("f", 2), Sq("g", 3), Sq("h", 4), Sq("g", 4)},
      {Sq("e", 8), Sq("e", 7), Sq("e", 5), Sq("c", 6), Sq("d", 8), Sq("f", 8)},
      {Sq("d", 6), Sq("d", 5), Sq("c", 7), Sq("e", 7), Sq("d", 8), Sq("d", 7)},
      {Sq("d", 4), Sq("e", 3), Sq("e", 4), Sq("d", 8), Sq("c", 3), Sq("f", 4)},
      {Sq("e", 8), Sq("d", 8), Sq("a", 8), Sq("a", 4), Sq("b", 5), Sq("h", 8)},
      {Sq("g", 2), Sq("h", 1), Sq("f", 1), Sq("g", 1), Sq("h", 8), Sq("h", 2)},
      {Sq("g", 8), Sq("f", 8), Sq("h", 8), Sq("e", 8), Sq("h", 7), Sq("f", 7)},
      {Sq("c", 1), Sq("d", 1), Sq("a", 1), Sq("d", 8), Sq("c", 6), Sq("d", 7)},
      {Sq("g", 1), Sq("h", 1), Sq("f", 1), Sq("e", 1), Sq("f", 2), Sq("h", 2)},
      {Sq("g", 1), Sq("f", 3), Sq("g", 8), Sq("f", 6), Sq("e", 2), Sq("e", 7)},
      {Sq("d", 6), Sq("c", 7), Sq("e", 7), Sq("e", 8), Sq("d", 8), Sq("f", 3)},
      {Sq("g", 6), Sq("g", 5), Sq("f", 5), Sq("h", 7), Sq("e", 6), Sq("f", 6)},
      {}>>

\* Applied moves so far: each one appends its position to boardPositions.
ply == Len(boardPositions)

\* The moves whose squares may be clicked now.
Offered ==
    IF ply < Len(Lines[line]) THEN Lines[line][ply + 1]
    ELSE IF ply < Len(Lines[line]) + MaxFree
    THEN {<<f, t>> : f \in FreeSquares[line], t \in FreeSquares[line]}
    ELSE {}

----------------------------------------------------------------------------
(* Operations *)

\* The promotion dialog and the "AI is thinking" notice are rendered with a
\* full-screen backdrop above the board: squares receive clicks only while
\* neither is shown.
boardClickable == promotionPawn = noPromotion /\ ~isAIThinking

\* actions.selectPiece, with the arguments handleSquareClick computes for a
\* piece of the side to move while nothing is selected.  Inside
\* handleSquareClick the dispatch follows SET_PROCESSING(true), on which the
\* reducer drops it (see SquareClick); here it is dispatched on its own, as
\* the action creator allows, so that play beyond the first click is covered.
SelectPiece(position) ==
    /\ boardClickable
    /\ selectedPiece = nullPos
    /\ At(board, position).color = currentPlayer
    /\ LET actions == <<selectPiece(state, position)>>
       IN  /\ Dispatch(actions)
           /\ Ran("selectPiece", nullPos, position, actions)
    /\ UNCHANGED line

\* onClick of a board square
SquareClick(position) ==
    /\ boardClickable
    /\ LET actions == handleSquareClick(state, position.row, position.col)
       IN  /\ Dispatch(actions)
           /\ Ran("handleSquareClick", selectedPiece, position, actions)
    /\ UNCHANGED line

promotionPieces == {"queen", "rook", "bishop", "knight"}

\* onSelect of the promotion dialog
Promotion(pieceType) ==
    /\ promotionPawn # noPromotion
    /\ LET actions == handlePromotion(state, pieceType)
           current == aiHintAbortController
           settled == IF current # 0 THEN hintAborted(hintRequests[current].render, FALSE)
                      ELSE << >>
       IN  /\ hintRequests' = abortHint(hintRequests, current)
           /\ aiHintAbortController' = 0
           /\ Dispatch(actions \o settled)
           /\ RanAborting("handlePromotion", nullPos, promotionPawn.position, actions,
                          current # 0, settled)
    /\ UNCHANGED line

\* onClick of the New Game button
NewGame ==
    /\ LET actions == <<[type |-> "NEW_GAME"]>>
       IN  /\ Dispatch(actions)
           /\ Ran("newGame", nullPos, nullPos, actions)
    /\ UNCHANGED line

\* onClick of the Reset button
ResetClick ==
    /\ LET actions == <<setProcessing(FALSE),
                        [type |-> "SET_AI_THINKING", isThinking |-> FALSE],
                        [type |-> "DESELECT_PIECE"]>>
                      \o (IF promotionPawn # noPromotion
                          THEN <<[type |-> "PROMOTE_PAWN", pieceType |-> "queen"]>>
                          ELSE << >>)
       IN  /\ Dispatch(actions)
           /\ Ran("reset", nullPos, nullPos, actions)
    /\ UNCHANGED line

\* onClick of the AI button, which is disabled while the AI is thinking
AIToggle ==
    /\ ~isAIThinking
    /\ LET actions == <<[type |-> "TOGGLE_AI", enabled |-> ~isAIEnabled]>>
       IN  /\ Dispatch(actions)
           /\ Ran("handleAIToggle", nullPos, nullPos, actions)
    /\ UNCHANGED line

\* messageCallbacks: for each key the request whose callback is registered
\* under it, 0 when the key is absent.
noCallbacks == [bestmove |-> 0, analysis |-> 0, ready |-> 0]


\* The state after construction, no conversion having been asked for.
Constructed ==
    /\ line \in 1..Len(Lines)
    /\ board = initialChessState.board
    /\ currentPlayer = initialChessState.currentPlayer
    /\ selectedPiece = initialChessState.selectedPiece
    /\ validMoves = initialChessState.validMoves
    /\ hasMoved = initialChessState.hasMoved
    /\ enPassantTarget = initialChessState.enPassantTarget
    /\ moveHistory = initialChessState.moveHistory
    /\ promotionPawn = initialChessState.promotionPawn
    /\ gameState = initialChessState.gameState
    /\ halfMoveCount = initialChessState.halfMoveCount
    /\ boardPositions = initialChessState.boardPositions
    /\ isAIEnabled = initialChessState.isAIEnabled
    /\ isAIThinking = initialChessState.isAIThinking
    /\ processingAction = initialChessState.processingAction
    /\ last = [op |-> "mount", from |-> nullPos, to |-> nullPos, did |-> << >>,
               effect |-> << >>, aborted |-> {}, settled |-> << >>]
    /\ aiHintAbortController = 0
    /\ hintRequests = << >>
    /\ cleared = {}
    /\ worker = "null"
    /\ initialized = FALSE
    /\ isReady = FALSE
    /\ commandQueue = << >>
    /\ messageCallbacks = noCallbacks
    /\ posted = << >>
    /\ enginePosition = 0
    /\ searching = FALSE
    /\ timers = << >>
    /\ emitted = 0
    /\ stops = 0
    /\ messages = << >>
    /\ calls = << >>
    /\ output = [of |-> "none"]
    /\ callStack = << >>
    /\ inits = << >>
    /\ workers = 0
    /\ submitted = << >>
    /\ reached = << >>

Init == Constructed /\ input = << >>

Next ==
    \/ \E m \in Offered : SelectPiece(m[1])
    \/ \E m \in Offered : SquareClick(m[1]) \/ SquareClick(m[2])
    \/ \E pieceType \in promotionPieces : Promotion(pieceType)
    \/ NewGame
    \/ ResetClick
    \/ AIToggle

Spec == Init /\ [][Next]_vars

----------------------------------------------------------------------------
(* Hint requests.  handleGetHint runs on as promises settle: getHint returns
   a square or null, the 10 s timeout fires, the 2 s display time ends.  An
   aborted request runs to its end in the microtasks that follow the abort,
   before any other event, so it is finished within the step that aborts it.
   The AI move request of the effect is aborted by the effect's own cleanup
   in the render its dispatches cause, and is likewise finished within the
   step that started it: between two steps the AI move ref holds null. *)

MaxHints == 2

\* The squares getHint answers with in this model.
hintPositions == {Sq("h", 8)}

\* loading of useChessAI: a getHint call has not returned yet.
aiLoading == \E h \in DOMAIN hintRequests : hintRequests[h].loading

\* The plies of the game at which the hint button is clicked.
hintPlies == {8}

\* onClick of the hint button, enabled while the AI is on
HintClick ==
    /\ ply \in hintPlies
    /\ isAIEnabled
    /\ boardClickable
    /\ handleGetHint(state, aiLoading) # << >>
    /\ Len(hintRequests) < MaxHints
    /\ LET actions == handleGetHint(state, aiLoading)
           current == aiHintAbortController
           settled == IF current # 0 THEN hintAborted(hintRequests[current].render, FALSE)
                      ELSE << >>
       IN  /\ hintRequests' = Append(abortHint(hintRequests, current),
                                     [render |-> state, pc |-> "racing",
                                      aborted |-> FALSE, loading |-> TRUE])
           /\ aiHintAbortController' = Len(hintRequests) + 1
           /\ Dispatch(actions \o settled)
           /\ RanAborting("handleGetHint", nullPos, nullPos, actions, current # 0, settled)
    /\ UNCHANGED line

\* The ref after request h has reached its finally block.
refAfter(h) == IF aiHintAbortController = h THEN 0 ELSE aiHintAbortController

\* getHint of request h returns hintPosition (nullPos for null).
getHintReturns(h, hintPosition) ==
    /\ hintRequests[h].loading
    /\ LET request == hintRequests[h]
           racing == request.pc = "racing"
           actions == IF ~racing THEN << >>
                      ELSE IF hintPosition # nullPos
                      THEN hintReceived(request.render, hintPosition)
                      ELSE requestSettles(aiHintAbortController = h)
           returned == [request EXCEPT !.loading = FALSE]
       IN  /\ hintRequests' =
                 [hintRequests EXCEPT
                    ![h] = IF ~racing THEN returned
                           ELSE IF hintPosition # nullPos
                           THEN [returned EXCEPT !.pc = "display"]
                           ELSE finished(returned)]
           /\ aiHintAbortController' =
                 IF racing /\ hintPosition = nullPos THEN refAfter(h)
                 ELSE aiHintAbortController
           /\ Dispatch(actions)
           /\ RanAborting("getHint", nullPos, hintPosition, actions, FALSE, << >>)
    /\ UNCHANGED line

\* The 10 s timeout of request h wins the race.
hintTimesOut(h) ==
    /\ hintRequests[h].pc = "racing"
    /\ LET actions == requestSettles(aiHintAbortController = h)
       IN  /\ hintRequests' = [hintRequests EXCEPT ![h] = finished(hintRequests[h])]
           /\ aiHintAbortController' = refAfter(h)
           /\ Dispatch(actions)
           /\ RanAborting("hintTimeout", nullPos, nullPos, actions, FALSE, << >>)
    /\ UNCHANGED line

\* The display time of request h's hint ends.
hintDisplayEnds(h) ==
    /\ hintRequests[h].pc = "display"
    /\ LET actions == hintDisplayed(hintRequests[h].render)
                      \o requestSettles(aiHintAbortController = h)
       IN  /\ hintRequests' = [hintRequests EXCEPT ![h] = finished(hintRequests[h])]
           /\ aiHintAbortController' = refAfter(h)
           /\ Dispatch(actions)
           /\ RanAborting("hintDisplay", nullPos, nullPos, actions, FALSE, << >>)
    /\ UNCHANGED line

\* The games in which hints are asked for.
hintLines == {13}

HintInit == Init /\ line \in hintLines

HintNext ==
    \/ Next
    \/ HintClick
    \/ \E h \in DOMAIN hintRequests :
          \E hintPosition \in hintPositions \cup {nullPos} : getHintReturns(h, hintPosition)
    \/ \E h \in DOMAIN hintRequests : hintTimesOut(h)
    \/ \E h \in DOMAIN hintRequests : hintDisplayEnds(h)

HintSpec == HintInit /\ [][HintNext]_vars

----------------------------------------------------------------------------
(* StockfishEngine and its worker.  A request is ChessAI's getBestMove or
   analyzePosition: it sets the position, then calls the engine method of the
   same name.  Request number p asks about position number p, the game having
   moved on between two requests.  The worker is the one the engine loads
   (stockfish.worker.js): it reads its commands in order; "go" turns
   engine.searching on and sets timers, of which one analysis timer and the
   bestmove timer are kept; a timer that fires while engine.searching is off
   does nothing; "stop" turns engine.searching off and answers with a
   bestmove line.  The timers of one "go" fire in order, those of different
   "go"s in any order, the think time being the caller's.  As history, "go"
   carries the request that sent it, and each line the request whose "go" it
   answers and the position the worker holds when it sends the line.  The
   lines that answer "uci" and the setoption commands of setSkillLevel reach
   no callback that acts on them and are left out. *)

MaxCalls == 2

MaxStops == 1

Command(cmd, arg) == [cmd |-> cmd, arg |-> arg]

Line(text, request, position) == [text |-> text, for |-> request, position |-> position]

\* The command queue, the worker's inbox and the callbacks after
\* sendCommand(command).
sendCommand(queue, inbox, callbacks, command) ==
    IF ~isReady /\ command.cmd # "isready"
    THEN [commandQueue |-> Append(queue, command), posted |-> inbox,
          messageCallbacks |-> callbacks]
    ELSE [commandQueue |-> queue, posted |-> Append(inbox, command),
          messageCallbacks |-> IF command.cmd = "isready"
                               THEN [callbacks EXCEPT !.ready = 1]
                               ELSE callbacks]

\* init up to its wait for readyok: "uci" is queued, "isready" is posted.
init ==
    /\ ~initialized /\ worker = "null"
    /\ worker' = "created"
    /\ LET uci == sendCommand(commandQueue, posted, messageCallbacks, Command("uci", 0))
           ready == sendCommand(uci.commandQueue, uci.posted, uci.messageCallbacks,
                                Command("isready", 0))
       IN  /\ commandQueue' = ready.commandQueue
           /\ posted' = ready.posted
           /\ messageCallbacks' = ready.messageCallbacks
    /\ UNCHANGED <<initialized, isReady, enginePosition, searching, timers, emitted, stops, messages, calls>>
    /\ UNCHANGED <<gameVars, codecVars>>

\* ChessAI.getBestMove or ChessAI.analyzePosition up to the end of
\* engine.setPosition.
setPosition(method) ==
    /\ initialized /\ Len(calls) < MaxCalls
    /\ LET fen == Len(calls) + 1
           sent == sendCommand(commandQueue, posted, messageCallbacks,
                               Command("position", fen))
       IN  /\ calls' = Append(calls, [method |-> method, position |-> fen,
                                      stage |-> "positioned", bestAnalysis |-> 0,
                                      resolved |-> 0])
           /\ commandQueue' = sent.commandQueue
           /\ posted' = sent.posted
           /\ messageCallbacks' = sent.messageCallbacks
    /\ UNCHANGED <<worker, initialized, isReady, enginePosition, searching, timers, emitted, stops, messages>>
    /\ UNCHANGED <<gameVars, codecVars>>

\* The engine method of request c: its callback replaces the one registered
\* under the same key, and "go" is sent.
search(c, key) ==
    /\ calls[c].stage = "positioned"
    /\ LET sent == sendCommand(commandQueue, posted,
                               [messageCallbacks EXCEPT ![key] = c], Command("go", c))
       IN  /\ commandQueue' = sent.commandQueue
           /\ posted' = sent.posted
           /\ messageCallbacks' = sent.messageCallbacks
    /\ calls' = [calls EXCEPT ![c].stage = "pending"]
    /\ UNCHANGED <<worker, initialized, isReady, enginePosition, searching, timers, emitted, stops, messages>>
    /\ UNCHANGED <<gameVars, codecVars>>

getBestMove(c) == calls[c].method = "getBestMove" /\ search(c, "bestmove")

analyzePosition(c) == calls[c].method = "analyzePosition" /\ search(c, "analysis")

\* Request c after its callbacks, if registered, have been called with data.
\* A promise that is resolved stays as it is.
called(c, data) ==
    LET call == calls[c]
        moveCallback ==
            IF data.text = "bestmove" /\ call.stage = "pending"
            THEN [call EXCEPT !.stage = "resolved", !.resolved = data.for]
            ELSE call
        analysisCallback ==
            CASE data.text = "info" -> [call EXCEPT !.bestAnalysis = data.for]
              [] data.text = "bestmove" /\ call.stage = "pending" ->
                    [call EXCEPT !.stage = "resolved",
                                 !.resolved = IF call.bestAnalysis # 0
                                              THEN call.bestAnalysis ELSE data.for]
              [] OTHER -> call
    IN  CASE messageCallbacks.bestmove = c -> moveCallback
          [] messageCallbacks.analysis = c -> analysisCallback
          [] OTHER -> call

\* handleMessage on the next line from the worker.  At readyok the pending
\* init goes on: the engine is initialized and the queued commands are sent.
handleMessage ==
    /\ messages # << >>
    /\ LET data == Head(messages)
           readyok == data.text = "readyok" /\ messageCallbacks.ready # 0
       IN  /\ messages' = Tail(messages)
           /\ calls' = [c \in DOMAIN calls |-> called(c, data)]
           /\ isReady' = (isReady \/ readyok)
           /\ initialized' = (initialized \/ readyok)
           /\ commandQueue' = IF readyok THEN << >> ELSE commandQueue
           /\ posted' = IF readyok THEN posted \o commandQueue ELSE posted
           /\ messageCallbacks' =
                 CASE data.text = "bestmove" ->
                        [messageCallbacks EXCEPT !.bestmove = 0, !.analysis = 0]
                   [] data.text = "readyok" -> [messageCallbacks EXCEPT !.ready = 0]
                   [] OTHER -> messageCallbacks
    /\ UNCHANGED <<worker, enginePosition, searching, timers, emitted, stops>>
    /\ UNCHANGED <<gameVars, codecVars>>

\* StockfishEngine.stop
stop ==
    /\ initialized /\ stops < MaxStops
    /\ stops' = stops + 1
    /\ LET sent == sendCommand(commandQueue, posted, messageCallbacks, Command("stop", 0))
       IN  /\ commandQueue' = sent.commandQueue
           /\ posted' = sent.posted
           /\ messageCallbacks' = sent.messageCallbacks
    /\ UNCHANGED <<worker, initialized, isReady, enginePosition, searching, timers,
                   emitted, messages, calls>>
    /\ UNCHANGED <<gameVars, codecVars>>

\* History: the request whose "go" the worker processed last, 0 when the
\* worker is not searching.
searched == IF searching /\ timers # << >> THEN timers[Len(timers)].request ELSE 0

\* The worker after handleGo: the search is on and its timers are set.
handleGo(request) ==
    [searching |-> TRUE,
     timers |-> Append(timers, [request |-> request, info |-> TRUE, bestmove |-> TRUE]),
     lines |-> << >>]

\* The worker after handleStop: the search is off and a bestmove line is sent.
handleStop ==
    [searching |-> FALSE, timers |-> timers,
     lines |-> <<Line("bestmove", searched, enginePosition)>>]

\* The bestmove lines among lines.
bestMoves(lines) == Len(SelectSeq(lines, LAMBDA l : l.text = "bestmove"))

\* onmessage of the worker on the next command posted to it.
workerReads ==
    /\ posted # << >>
    /\ LET command == Head(posted)
           after == CASE command.cmd = "go" -> handleGo(command.arg)
                      [] command.cmd = "stop" -> handleStop
                      [] command.cmd = "isready" ->
                            [searching |-> searching, timers |-> timers,
                             lines |-> <<Line("readyok", 0, 0)>>]
                      [] OTHER -> [searching |-> searching, timers |-> timers,
                                   lines |-> << >>]
       IN  /\ posted' = Tail(posted)
           /\ enginePosition' = IF command.cmd = "position" THEN command.arg
                                ELSE enginePosition
           /\ searching' = after.searching
           /\ timers' = after.timers
           /\ messages' = messages \o after.lines
           /\ emitted' = emitted + bestMoves(after.lines)
    /\ UNCHANGED <<worker, initialized, isReady, commandQueue, messageCallbacks, stops,
                   calls>>
    /\ UNCHANGED <<gameVars, codecVars>>

\* An analysis timer of the g-th "go" fires.
workerInfo(g) ==
    /\ timers[g].info
    /\ timers' = [timers EXCEPT ![g].info = FALSE]
    /\ messages' = IF searching
                   THEN Append(messages, Line("info", timers[g].request, enginePosition))
                   ELSE messages
    /\ UNCHANGED <<worker, initialized, isReady, commandQueue, messageCallbacks,
                   posted, enginePosition, searching, emitted, stops, calls>>
    /\ UNCHANGED <<gameVars, codecVars>>

\* The bestmove timer of the g-th "go" fires, after its analysis timers.
workerBestMove(g) ==
    /\ timers[g].bestmove /\ ~timers[g].info
    /\ timers' = [timers EXCEPT ![g].bestmove = FALSE]
    /\ messages' = IF searching
                   THEN Append(messages, Line("bestmove", timers[g].request, enginePosition))
                   ELSE messages
    /\ emitted' = IF searching THEN emitted + 1 ELSE emitted
    /\ searching' = FALSE
    /\ UNCHANGED <<worker, initialized, isReady, commandQueue, messageCallbacks,
                   posted, enginePosition, stops, calls>>
    /\ UNCHANGED <<gameVars, codecVars>>

EngineInit == Init /\ line = 1

EngineNext ==
    \/ init
    \/ \E method \in {"getBestMove", "analyzePosition"} : setPosition(method)
    \/ \E c \in DOMAIN calls : getBestMove(c)
    \/ \E c \in DOMAIN calls : analyzePosition(c)
    \/ stop
    \/ handleMessage
    \/ workerReads
    \/ \E g \in DOMAIN timers : workerInfo(g)
    \/ \E g \in DOMAIN timers : workerBestMove(g)

EngineSpec == EngineInit /\ [][EngineNext]_vars

----------------------------------------------------------------------------
(* Properties.  The rules of chess the properties refer to are stated here
   on their own, apart from the functions of the component. *)

Sign(n) == IF n > 0 THEN 1 ELSE IF n < 0 THEN -1 ELSE 0

Max(a, b) == IF a > b THEN a ELSE b

\* Every square strictly between two aligned squares is empty.
ClearBetween(b, from, to) ==
    \A k \in 1..(Max(Abs(to.row - from.row), Abs(to.col - from.col)) - 1) :
        At(b, Pos(from.row + k * Sign(to.row - from.row),
                  from.col + k * Sign(to.col - from.col))) = null

\* The piece on from attacks the square to: a white pawn attacks the two
\* squares diagonally towards row 0, a black pawn those towards row 7.
Attacks(b, from, to) ==
    LET piece == At(b, from)
        dr == to.row - from.row
        dc == to.col - from.col
        straight == (dr = 0) # (dc = 0)
        diagonal == Abs(dr) = Abs(dc) /\ dr # 0
    IN  CASE piece.type = "pawn" -> dr = direction(piece.color) /\ Abs(dc) = 1
          [] piece.type = "knight" -> {Abs(dr), Abs(dc)} = {1, 2}
          [] piece.type = "king" -> Max(Abs(dr), Abs(dc)) = 1
          [] piece.type = "rook" -> straight /\ ClearBetween(b, from, to)
          [] piece.type = "bishop" -> diagonal /\ ClearBetween(b, from, to)
          [] piece.type = "queen" -> (straight \/ diagonal) /\ ClearBetween(b, from, to)
          [] OTHER -> FALSE

\* Some piece of the opponent of defenderColor attacks pos.
Attacked(b, pos, defenderColor) ==
    \E from \in Squares :
        At(b, from).color = Opp(defenderColor) /\ Attacks(b, from, pos)

KingAttacked(b, color) ==
    findKing(color, b) # nullPos /\ Attacked(b, findKing(color, b), color)

\* The last handler dispatched an action of type t.
Did(t) == \E i \in DOMAIN last.did : last.did[i] = t

\* The last handler was handleMove and it applied a move that is complete.
MoveDone == Did("MOVE_PIECE") \/ Did("HANDLE_CASTLING") \/ Did("HANDLE_EN_PASSANT")

\* C1: after a move that handleMove accepted and applied, the king of the
\* player who made the move (the side that is no longer to move) is attacked
\* by no opposing piece on the resulting board.
C1_MoverKingSafe == MoveDone => ~KingAttacked(board, Opp(currentPlayer))

\* The moves of the piece on from by the movement rules alone, an en
\* passant capture included.
Movements(b, from) ==
    getBasicMoves(At(b, from), from, b)
    \cup {to \in {enPassantTarget} \ {nullPos} :
            /\ At(b, from).type = "pawn"
            /\ to.row - from.row = direction(At(b, from).color)
            /\ Abs(to.col - from.col) = 1}

\* The board after the piece on from goes to to; a pawn that moves
\* diagonally onto an empty square takes the pawn it passed.
After(b, from, to) ==
    LET moved == Put(Put(b, from, null), to, At(b, from))
    IN  IF At(b, from).type = "pawn" /\ to.col # from.col /\ At(b, to) = null
        THEN Put(moved, Pos(from.row, to.col), null)
        ELSE moved

\* Some piece of color, of any kind, has a move after which its own king is
\* not attacked.
HasSavingMove(b, color) ==
    \E from \in Squares :
        /\ At(b, from).color = color
        /\ \E to \in Movements(b, from) : ~KingAttacked(After(b, from, to), color)

DeclaredCheckmate == gameState.isOver /\ gameState.winner = Opp(currentPlayer)

\* C2: right after a move is applied the game is declared Checkmate, won by
\* the player who just moved, exactly when the side to move is in check and
\* no piece of it, of any kind, has a move that leaves its king unattacked.
C2_CheckmateExactly ==
    (MoveDone \/ Did("PROMOTE_PAWN")) =>
        (DeclaredCheckmate <=>
            (KingAttacked(board, currentPlayer) /\ ~HasSavingMove(board, currentPlayer)))

\* In this step a square was clicked and handleSquareClick passed it, with
\* the selected square, to handleMove.
HandleMoveCalled ==
    /\ last'.op = "handleSquareClick"
    /\ ~gameState.isOver /\ ~isAIThinking /\ ~processingAction
    /\ ~(currentPlayer = "black" /\ isAIEnabled)
    /\ selectedPiece # nullPos
    /\ last'.to # selectedPiece

positionUnchanged ==
    UNCHANGED <<board, currentPlayer, hasMoved, enPassantTarget, halfMoveCount,
                moveHistory, boardPositions>>

\* C3: a call of handleMove whose destination is not among the piece's valid
\* moves, or whose move would leave the mover's king attacked, is rejected:
\* board, currentPlayer, hasMoved, enPassantTarget, halfMoveCount,
\* moveHistory and boardPositions are as before the call.
C3_RejectedUnchanged ==
    [][(/\ HandleMoveCalled
        /\ \/ last'.to \notin getValidMoves(state, At(board, selectedPiece),
                                            selectedPiece, board)
           \/ KingAttacked(After(board, selectedPiece, last'.to), currentPlayer))
       => positionUnchanged]_vars

\* The handler of this step dispatched an action of type t.
Does(t) == \E i \in DOMAIN last'.did : last'.did[i] = t

\* C4: a step that applies a move (MOVE_PIECE, HANDLE_CASTLING,
\* HANDLE_EN_PASSANT, or the PROMOTE_PAWN that completes a promotion begun
\* by SET_PROMOTION_PAWN) gives the turn to the other player, NEW_GAME gives
\* it to white, and every other step leaves currentPlayer as it is.
C4_TurnAlternates ==
    [][currentPlayer' =
         IF Does("NEW_GAME") THEN "white"
         ELSE IF \/ Does("MOVE_PIECE") \/ Does("HANDLE_CASTLING")
                 \/ Does("HANDLE_EN_PASSANT") \/ Does("PROMOTE_PAWN")
         THEN Opp(currentPlayer)
         ELSE currentPlayer]_vars

\* A promotion begun by white has been completed and it is black's turn.
C4_Witness ==
    /\ last.op = "handlePromotion" /\ Did("PROMOTE_PAWN")
    /\ promotionPawn = noPromotion
    /\ currentPlayer = "black"

\* The fields of the position agree in the states a and b.
SamePosition(a, b) ==
    /\ a.board = b.board
    /\ a.currentPlayer = b.currentPlayer
    /\ a.hasMoved = b.hasMoved
    /\ a.enPassantTarget = b.enPassantTarget
    /\ a.moveHistory = b.moveHistory

\* A click on any square, whatever square is selected, leaves the position
\* as it is.
ClicksInert ==
    \A sel \in Squares \cup {nullPos}, pos \in Squares :
        LET s == [state EXCEPT !.selectedPiece = sel]
        IN  SamePosition(reduceAll(s, handleSquareClick(s, pos.row, pos.col)), state)

\* C5: once gameState.isOver is true, no step other than NEW_GAME (no square
\* click, AI response, promotion choice or reset) changes board,
\* currentPlayer, hasMoved, enPassantTarget or moveHistory; and in such a
\* state a click changes none of them whatever is selected.
C5_OverIsFinal ==
    /\ [](gameState.isOver => ClicksInert)
    /\ [][(gameState.isOver /\ ~Does("NEW_GAME")) =>
            UNCHANGED <<board, currentPlayer, hasMoved, enPassantTarget, moveHistory>>]_vars

\* A square was clicked after the game had ended, and nothing was dispatched.
C5_Witness ==
    /\ gameState.isOver
    /\ last.op = "handleSquareClick" /\ last.did = << >>

\* C6: after e2e4, a7a6, e4e5, d7d5 from the initial position the en passant
\* target is d6 and the legal moves of the white pawn on e5 include d6; and
\* when e5d6 is then applied the white pawn stands on d6 and d5 is empty.
C6_EnPassantCapture ==
    /\ moveHistory = <<"e4", "a6", "e5", "d5">> =>
          /\ enPassantTarget = Sq("d", 6)
          /\ Sq("d", 6) \in legalMoves(state, At(board, Sq("e", 5)), Sq("e", 5))
    /\ (/\ Len(moveHistory) = 5
        /\ SubSeq(moveHistory, 1, 4) = <<"e4", "a6", "e5", "d5">>
        /\ MoveDone /\ last.from = Sq("e", 5) /\ last.to = Sq("d", 6)) =>
          /\ At(board, Sq("d", 6)) = Piece("pawn", "white")
          /\ At(board, Sq("d", 5)) = null

\* What the rules ask of a castling move of the king of color from pos to
\* to, two columns away on its row.
CastlingAllowed(color, pos, to) ==
    LET step == Sign(to.col - pos.col)
        rookCol == IF step > 0 THEN 7 ELSE 0
        side == IF step > 0 THEN "right" ELSE "left"
    IN  /\ ~hasMoved[color \o "-king"]
        /\ ~hasMoved[color \o "-rook-" \o side]
        /\ \A c \in 0..7 :
              (c - pos.col) * (c - rookCol) < 0 => board[pos.row][c] = null
        /\ \A c \in {pos.col, pos.col + step, to.col} :
              ~Attacked(board, Pos(pos.row, c), color)

\* The destinations two columns away that getValidMoves offers the king of
\* color.
CastlingOffered(color) ==
    LET pos == findKing(color, board)
    IN  IF pos = nullPos THEN {}
        ELSE {to \in getValidMoves(state, At(board, pos), pos, board) :
                Abs(to.col - pos.col) = 2}

\* C7: getValidMoves offers the king of the side to move a castling
\* destination only if the king has not moved, the rook of that side has not
\* moved, every square strictly between king and rook is empty, and the
\* king's square, the square it crosses and its destination are attacked by
\* no opposing piece.
C7_CastlingOnlyIfAllowed ==
    \A to \in CastlingOffered(currentPlayer) :
        CastlingAllowed(currentPlayer, findKing(currentPlayer, board), to)

\* White is to move with king on e1 and rook on h1, neither having moved,
\* f1 and g1 empty, and e1, f1 and g1 attacked by no black piece.
ShortCastleReady(s) ==
    /\ s.currentPlayer = "white"
    /\ At(s.board, Sq("e", 1)) = Piece("king", "white")
    /\ At(s.board, Sq("h", 1)) = Piece("rook", "white")
    /\ At(s.board, Sq("f", 1)) = null /\ At(s.board, Sq("g", 1)) = null
    /\ ~s.hasMoved["white-king"] /\ ~s.hasMoved["white-rook-right"]
    /\ \A f \in {"e", "f", "g"} : ~Attacked(s.board, Sq(f, 1), "white")

ShortCastled(b) ==
    /\ At(b, Sq("g", 1)) = Piece("king", "white")
    /\ At(b, Sq("f", 1)) = Piece("rook", "white")
    /\ At(b, Sq("e", 1)) = null /\ At(b, Sq("h", 1)) = null

\* The starting position with f1 and g1 emptied, and the same with the king
\* selected.
startCleared ==
    [initialChessState EXCEPT
        !.board = Put(Put(initializeBoard, Sq("f", 1), null), Sq("g", 1), null)]

startClearedSelected ==
    [startCleared EXCEPT
        !.selectedPiece = Sq("e", 1),
        !.validMoves = legalMoves(startCleared, Piece("king", "white"), Sq("e", 1))]

\* C8: whenever white is to move with king e1 and rook h1 unmoved, f1 and g1
\* empty and e1, f1, g1 not attacked (in the starting position with f1 and
\* g1 emptied in particular), the legal moves of the king on e1 include g1;
\* and applying that move leaves the king on g1, the rook on f1, and e1 and
\* h1 empty.
C8_ShortCastle ==
    /\ [](/\ ShortCastleReady(startCleared)
          /\ Sq("g", 1) \in startClearedSelected.validMoves
          /\ ShortCastled(reduceAll(startClearedSelected,
                                    handleSquareClick(startClearedSelected, 7, 6)).board))
    /\ [](ShortCastleReady(state) =>
            Sq("g", 1) \in legalMoves(state, At(board, Sq("e", 1)), Sq("e", 1)))
    /\ [][(/\ ShortCastleReady(state) /\ HandleMoveCalled
           /\ selectedPiece = Sq("e", 1) /\ last'.to = Sq("g", 1))
          => ShortCastled(board')]_vars

\* White has just castled short from a position that was ready for it.
C8_Witness ==
    /\ last.op = "handleSquareClick" /\ Did("HANDLE_CASTLING")
    /\ last.from = Sq("e", 1) /\ last.to = Sq("g", 1)
    /\ moveHistory = <<"Nf3", "a6", "e4", "a5", "Be2", "a4", "O-O">>

\* C9: once the king of a color has moved, or the rook of a side has moved
\* or has been captured on its home square, castling on that side is not
\* offered to that color, when it is to move, again before a new game.
C9_ClearedRightStaysCleared ==
    \A to \in CastlingOffered(currentPlayer) :
        <<currentPlayer, IF to.col > 4 THEN "right" ELSE "left">> \notin cleared

\* This step completes a move.
MoveCompleted ==
    \/ Does("MOVE_PIECE") \/ Does("HANDLE_CASTLING")
    \/ Does("HANDLE_EN_PASSANT") \/ Does("PROMOTE_PAWN")

\* This step moves the selected pawn two squares forward.
TwoSquareAdvance ==
    /\ Does("MOVE_PIECE")
    /\ At(board, selectedPiece).type = "pawn"
    /\ Abs(last'.to.row - selectedPiece.row) = 2

\* C10: a step that completes a move leaves enPassantTarget on the square
\* passed over when the move is a two-square pawn advance, and null when it
\* is any other move (castling, an en passant capture and a completed
\* promotion included).
C10_EnPassantTargetExact ==
    [][MoveCompleted =>
         enPassantTarget' =
            IF TwoSquareAdvance
            THEN Pos((selectedPiece.row + last'.to.row) \div 2, selectedPiece.col)
            ELSE nullPos]_vars

\* The moves to the farthest rank that are legal for a pawn of the side to
\* move.
PromotingMoves ==
    {m \in Squares \X Squares :
        /\ At(board, m[1]) = Piece("pawn", currentPlayer)
        /\ m[2].row \in {0, 7}
        /\ m[2] \in legalMoves(state, At(board, m[1]), m[1])}

\* The states in which handleMove is called for the pawn on from: by
\* handleSquareClick with the pawn selected, and, for black, by makeAIMove,
\* which selects nothing.
MoveCallers(from) ==
    {[state EXCEPT !.selectedPiece = from]}
    \cup (IF currentPlayer = "black"
          THEN {[state EXCEPT !.selectedPiece = nullPos, !.validMoves = {}]}
          ELSE {})

\* C11: a pawn move to the farthest rank, entered by a click or returned by
\* the oracle, is not complete (the turn has not passed) until a promotion
\* piece is chosen, and after the choice the pawn's origin square is empty
\* and the destination holds the chosen queen, rook, bishop or knight of the
\* mover's color.
C11_PromotionCompletes ==
    \A m \in PromotingMoves : \A s \in MoveCallers(m[1]) :
        LET pending == reduceAll(s, handleMove(s, m[1], m[2]))
        IN  /\ pending.promotionPawn # noPromotion
            /\ pending.currentPlayer = currentPlayer
            /\ \A pieceType \in promotionPieces :
                  LET done == reduceAll(pending, handlePromotion(pending, pieceType))
                  IN  /\ done.promotionPawn = noPromotion
                      /\ done.currentPlayer = Opp(currentPlayer)
                      /\ At(done.board, m[1]) = null
                      /\ At(done.board, m[2]) = Piece(pieceType, currentPlayer)

\* The signatures of the positions the game has been in: the initial
\* position and the one after each applied move.
signatureHistory ==
    <<generateBoardPosition(initializeBoard, "white", noneMoved)>> \o boardPositions

\* How often the game has been in the position with signature sig.
Occurrences(sig) ==
    Cardinality({i \in DOMAIN signatureHistory : signatureHistory[i] = sig})

currentSignature == generateBoardPosition(board, currentPlayer, hasMoved)

DeclaredRepetition ==
    gameState.isOver /\ gameState.message = "Draw by threefold repetition!"

\* C12: right after an applied move, a draw by repetition is declared if the
\* move has produced a position signature for the third time, and is not
\* declared while every signature has occurred fewer than three times.
C12_RepetitionAtThird ==
    (MoveDone \/ Did("PROMOTE_PAWN")) =>
        /\ Occurrences(currentSignature) >= 3 => DeclaredRepetition
        /\ DeclaredRepetition =>
              \E i \in DOMAIN signatureHistory : Occurrences(signatureHistory[i]) >= 3

DeclaredDraw == gameState.isOver /\ gameState.winner = "none"

\* C13: right after the move that makes one hundred consecutive applied
\* moves without a pawn move or a capture (the halfmove clock reaches 100),
\* the game is over and drawn.
C13_FiftyMoveAtHundred == (MoveDone /\ halfMoveCount = 100) => DeclaredDraw

\* C14: right after a move, when the side to move is in check and has a
\* move that saves its king (so it is neither checkmate nor stalemate), and
\* the position has occurred three times or the halfmove clock has reached
\* 100, the game is declared drawn.
C14_DrawDeclaredInCheck ==
    ( /\ MoveDone \/ Did("PROMOTE_PAWN")
      /\ KingAttacked(board, currentPlayer)
      /\ HasSavingMove(board, currentPlayer)
      /\ Occurrences(currentSignature) >= 3 \/ halfMoveCount >= 100 )
    => DeclaredDraw

DeclaredStalemate ==
    DeclaredDraw /\ gameState.message = "Stalemate! Game is a draw!"

\* C15: right after a move, if the side to move is not in check and no piece
\* of it has a move that leaves its king unattacked, the game is over by
\* stalemate with no winner.
C15_StalemateDeclared ==
    ( /\ MoveDone \/ Did("PROMOTE_PAWN")
      /\ ~KingAttacked(board, currentPlayer)
      /\ ~HasSavingMove(board, currentPlayer) )
    => DeclaredStalemate

PieceCount(b) == Cardinality({pos \in Squares : At(b, pos) # null})

\* This step completes a pawn move (a promotion included) or takes a piece.
PawnMoveOrCapture ==
    \/ Does("PROMOTE_PAWN")
    \/ At(board, last'.from).type = "pawn"
    \/ PieceCount(board') < PieceCount(board)

\* C16: a step that completes a move leaves halfMoveCount at 0 when the move
\* is a pawn move (en passant and promotion included) or a capture, and one
\* above its previous value otherwise (castling included).
C16_HalfMoveClock ==
    [][MoveCompleted =>
         halfMoveCount' = IF PawnMoveOrCapture THEN 0 ELSE halfMoveCount + 1]_vars

\* A piece other than a pawn has just captured after quiet moves were counted.
C16_Witness ==
    /\ Did("MOVE_PIECE")
    /\ At(board, last.to).type \notin {"pawn", "none"}
    /\ PieceCount(board) < 32
    /\ halfMoveCount = 0
    /\ Len(moveHistory) >= 3

\* C17: in every reachable state, the initial state and the state after a new
\* game included, the signature of the current position occurs at least once
\* in boardPositions.
C17_CurrentPositionRecorded ==
    \E i \in DOMAIN boardPositions : boardPositions[i] = currentSignature

\* C18: after NEW_GAME the board is the initial layout with white to move,
\* moveHistory is empty, no king or rook is marked as moved, there is no en
\* passant target, halfMoveCount is 0, and boardPositions holds the signature
\* of the initial position once and nothing else.
C18_NewGameResets ==
    Did("NEW_GAME") =>
        /\ board = initializeBoard
        /\ currentPlayer = "white"
        /\ moveHistory = <<>>
        /\ hasMoved = noneMoved
        /\ enPassantTarget = nullPos
        /\ halfMoveCount = 0
        /\ boardPositions = <<generateBoardPosition(initializeBoard, "white", noneMoved)>>

\* The same without the requirement on boardPositions.
NewGameResetsPosition ==
    Did("NEW_GAME") =>
        /\ board = initializeBoard
        /\ currentPlayer = "white"
        /\ moveHistory = <<>>
        /\ hasMoved = noneMoved
        /\ enPassantTarget = nullPos
        /\ halfMoveCount = 0
        /\ boardPositions = <<>>

Kings(color) == {pos \in Squares : At(board, pos) = Piece("king", color)}

\* C19: in every reachable state the board holds exactly one white king and
\* exactly one black king.
C19_OneKingEach == Cardinality(Kings("white")) = 1 /\ Cardinality(Kings("black")) = 1

\* C20: no request is resolved with the result of a search that an earlier
\* request started.
C20_NoStaleBestMove ==
    \A c \in DOMAIN calls :
        calls[c].stage = "resolved" => calls[c].resolved \notin 1..(c - 1)

\* The actions that select a piece or make a move.
SelectionOrMove ==
    {"SELECT_PIECE", "DESELECT_PIECE", "MOVE_PIECE", "HANDLE_CASTLING",
     "HANDLE_EN_PASSANT", "SET_PROMOTION_PAWN", "PROMOTE_PAWN"}

\* What a request dispatches once aborted leaves the position and the
\* selection as they are.
KeepsPositionAndSelection(actions) ==
    LET after == reduceAll(state, actions)
    IN  /\ after.board = board
        /\ after.currentPlayer = currentPlayer
        /\ after.selectedPiece = selectedPiece
        /\ after.validMoves = validMoves

liveHints ==
    {h \in DOMAIN hintRequests : hintRequests[h].pc # "done" /\ ~hintRequests[h].aborted}

C23_RequestEndsIdle ==
    "aiMove" \in last.aborted => (~isAIThinking /\ ~processingAction)

\* handleMessage takes the bestmove line that answers the "go" of request c.
BestMoveLineHandled(c) ==
    /\ messages # << >>
    /\ Head(messages).text = "bestmove"
    /\ Head(messages).for = c
    /\ messages' = Tail(messages)

\* C24: a getBestMove call that has not resolved resolves when the bestmove
\* line of its search is handled, also when another call was made before then.
C24_ResolvesAtBestMove ==
    [][\A c \in DOMAIN calls :
          (calls[c].method = "getBestMove" /\ calls[c].stage = "pending"
           /\ BestMoveLineHandled(c))
              => calls'[c].stage = "resolved"]_vars

\* The worker sends a bestmove line in this step.
BestMoveEmitted == emitted' = emitted + 1

\* The worker has read every command and all its timers have fired.
workerAtRest ==
    /\ posted = << >>
    /\ commandQueue = << >>
    /\ \A g \in DOMAIN timers : ~timers[g].info /\ ~timers[g].bestmove

\* C25: the worker sends one bestmove line for each "go" it processes, also
\* when a "stop" or a second "go" comes before the search ends, and none when
\* no search is on: a line is sent only while engine.searching is on, and once
\* the worker has read every command and every timer has fired there are as
\* many bestmove lines as there were "go"s.
C25_OneBestMovePerGo ==
    /\ [][BestMoveEmitted => searching]_vars
    /\ [](workerAtRest => emitted = Len(timers))

----------------------------------------------------------------------------
(* FEN notation (utils/fen): boardToFEN and fenToBoard.  A string is the
   sequence of its characters; a JavaScript value read from a map of flags
   is "true", "false" or "undefined". *)

lowers ==
    <<"a", "b", "c", "d", "e", "f", "g", "h", "i", "j", "k", "l", "m",
      "n", "o", "p", "q", "r", "s", "t", "u", "v", "w", "x", "y", "z">>

uppers ==
    <<"A", "B", "C", "D", "E", "F", "G", "H", "I", "J", "K", "L", "M",
      "N", "O", "P", "Q", "R", "S", "T", "U", "V", "W", "X", "Y", "Z">>

digits == <<"0", "1", "2", "3", "4", "5", "6", "7", "8", "9">>

\* The index of char in chars, 0 when it is not there.
indexIn(chars, char) ==
    IF \E i \in DOMAIN chars : chars[i] = char
    THEN CHOOSE i \in DOMAIN chars : chars[i] = char
    ELSE 0

toUpperCase(char) ==
    IF indexIn(lowers, char) # 0 THEN uppers[indexIn(lowers, char)] ELSE char

toLowerCase(char) ==
    IF indexIn(uppers, char) # 0 THEN lowers[indexIn(uppers, char)] ELSE char

\* /\d/.test(char)
isDigit(char) == indexIn(digits, char) # 0

\* parseInt(char) of a digit
parseInt(char) == indexIn(digits, char) - 1

\* n.toString() for 0 <= n <= 9
toString(n) == digits[n + 1]

includes(text, char) == \E i \in DOMAIN text : text[i] = char

\* parts.join(separator)
RECURSIVE join(_, _)
join(parts, separator) ==
    IF parts = << >> THEN << >>
    ELSE IF Len(parts) = 1 THEN parts[1]
    ELSE parts[1] \o <<separator>> \o join(Tail(parts), separator)

\* text.split(separator)
RECURSIVE split(_, _)
split(text, separator) ==
    IF ~includes(text, separator) THEN <<text>>
    ELSE LET i == CHOOSE i \in DOMAIN text :
                     text[i] = separator /\ \A j \in 1..(i - 1) : text[j] # separator
         IN  <<SubSeq(text, 1, i - 1)>> \o split(SubSeq(text, i + 1, Len(text)), separator)

\* The game's hasMoved map as JavaScript reads it: a key is absent until
\* the reducer sets it to true.
flags(moved) == [k \in HasMovedKeys |-> IF moved[k] THEN "true" ELSE "undefined"]

pieceLetters ==
    [pawn |-> "p", knight |-> "n", bishop |-> "b", rook |-> "r", queen |-> "q",
     king |-> "k"]

pieceToFENChar(piece) ==
    IF piece.color = "white" THEN toUpperCase(pieceLetters[piece.type])
    ELSE pieceLetters[piece.type]

\* One pass of the inner loop of boardPositionToFEN over the columns from
\* col on, with emptySquares empty squares counted so far.
RECURSIVE rankToFEN(_, _, _)
rankToFEN(rank, col, emptySquares) ==
    LET counted == IF emptySquares > 0 THEN <<toString(emptySquares)>> ELSE << >>
    IN  IF col = 8 THEN counted
        ELSE IF rank[col] = null THEN rankToFEN(rank, col + 1, emptySquares + 1)
        ELSE counted \o <<pieceToFENChar(rank[col])>> \o rankToFEN(rank, col + 1, 0)

boardPositionToFEN(b) == join([row \in 1..8 |-> rankToFEN(b[row - 1], 0, 0)], "/")

\* !castlingRights[key]
unset(castlingRights, key) == castlingRights[key] # "true"

castlingRightsToFEN(castlingRights) ==
    LET castling ==
            (IF unset(castlingRights, "white-king") /\ unset(castlingRights, "white-rook-right")
             THEN <<"K">> ELSE << >>)
            \o (IF unset(castlingRights, "white-king") /\ unset(castlingRights, "white-rook-left")
                THEN <<"Q">> ELSE << >>)
            \o (IF unset(castlingRights, "black-king") /\ unset(castlingRights, "black-rook-right")
                THEN <<"k">> ELSE << >>)
            \o (IF unset(castlingRights, "black-king") /\ unset(castlingRights, "black-rook-left")
                THEN <<"q">> ELSE << >>)
    IN  IF castling = << >> THEN <<"-">> ELSE castling

enPassantToFEN(target) ==
    IF target = nullPos THEN <<"-">>
    ELSE <<lowers[target.col + 1], toString(8 - target.row)>>

boardToFEN(b, player, castlingRights, target) ==
    join(<<boardPositionToFEN(b),
           <<IF player = "white" THEN "w" ELSE "b">>,
           castlingRightsToFEN(castlingRights),
           enPassantToFEN(target),
           <<"0">>,
           <<"1">>>>, " ")

\* A thrown Error
thrown == [ok |-> FALSE]

charToPieceType(char) ==
    CASE char = "p" -> "pawn"
      [] char = "n" -> "knight"
      [] char = "b" -> "bishop"
      [] char = "r" -> "rook"
      [] char = "q" -> "queen"
      [] char = "k" -> "king"
      [] OTHER -> "Error"

fenCharToPiece(char) ==
    Piece(charToPieceType(toLowerCase(char)),
          IF char = toUpperCase(char) THEN "white" ELSE "black")

\* The inner loop of parseBoardPosition from character i of rank on: squares
\* is the row filled so far, col the column reached.  A piece written beyond
\* column 7 lands outside the row.
RECURSIVE parseRank(_, _, _, _)
parseRank(rank, i, squares, col) ==
    IF i > Len(rank)
    THEN IF col # 8 THEN thrown ELSE [ok |-> TRUE, squares |-> squares]
    ELSE IF isDigit(rank[i])
    THEN parseRank(rank, i + 1, squares, col + parseInt(rank[i]))
    ELSE IF fenCharToPiece(rank[i]).type = "Error" THEN thrown
    ELSE parseRank(rank, i + 1,
                   IF col \in 0..7 THEN [squares EXCEPT ![col] = fenCharToPiece(rank[i])]
                   ELSE squares,
                   col + 1)

parseBoardPosition(boardPart) ==
    LET rows == split(boardPart, "/")
        parsed == [row \in 0..7 |-> parseRank(rows[row + 1], 1, [c \in 0..7 |-> null], 0)]
    IN  IF Len(rows) # 8 THEN thrown
        ELSE IF \E row \in 0..7 : ~parsed[row].ok THEN thrown
        ELSE [ok |-> TRUE, board |-> [row \in 0..7 |-> parsed[row].squares]]

parseCastlingRights(castlingPart) ==
    LET without(letter) == ~includes(castlingPart, letter)
        moved(yes) == IF yes THEN "true" ELSE "false"
    IN  IF castlingPart = <<"-">> THEN [k \in HasMovedKeys |-> "false"]
        ELSE [k \in HasMovedKeys |->
                CASE k = "white-king" -> moved(without("K") \/ without("Q"))
                  [] k = "white-rook-right" -> moved(without("K"))
                  [] k = "white-rook-left" -> moved(without("Q"))
                  [] k = "black-king" -> moved(without("k") \/ without("q"))
                  [] k = "black-rook-right" -> moved(without("k"))
                  [] k = "black-rook-left" -> moved(without("q"))]

\* text.charAt(i), with i counted from 1
charAt(text, i) == IF i \in DOMAIN text THEN text[i] ELSE ""

parseEnPassantTarget(enPassantPart) ==
    LET file == charAt(enPassantPart, 1)
        rank == charAt(enPassantPart, 2)
    IN  IF enPassantPart = <<"-">> THEN [ok |-> TRUE, target |-> nullPos]
        ELSE IF indexIn(SubSeq(lowers, 1, 8), file) = 0
                \/ indexIn(SubSeq(digits, 2, 9), rank) = 0
        THEN thrown
        ELSE [ok |-> TRUE, target |-> Pos(8 - parseInt(rank), indexIn(lowers, file) - 1)]

fenToBoard(fen) ==
    LET parts == split(fen, " ")
        parsedBoard == parseBoardPosition(parts[1])
        enPassant == parseEnPassantTarget(parts[4])
    IN  IF Len(parts) < 6 THEN thrown
        ELSE IF ~parsedBoard.ok THEN thrown
        ELSE IF ~enPassant.ok THEN thrown
        ELSE [ok |-> TRUE,
              board |-> parsedBoard.board,
              currentPlayer |-> IF parts[2] = <<"w">> THEN "white" ELSE "black",
              castlingRights |-> parseCastlingRights(parts[3]),
              enPassantTarget |-> enPassant.target]

\* The castling rights a map of flags leaves, as the game reads it
\* (!hasMoved[king] && !hasMoved[rook]).
availableCastling(castlingRights) ==
    {right \in {<<"white", "right">>, <<"white", "left">>,
                <<"black", "right">>, <<"black", "left">>} :
        /\ unset(castlingRights, right[1] \o "-king")
        /\ unset(castlingRights, right[1] \o "-rook-" \o right[2])}

\* The game's position encoded and decoded again.
decodedPosition == fenToBoard(boardToFEN(board, currentPlayer, flags(hasMoved), enPassantTarget))

\* C26: for every position reached in play, fenToBoard(boardToFEN(...))
\* yields the same board, side to move, set of available castling rights and
\* en-passant target.
C26_FENRoundTrip ==
    /\ decodedPosition.ok
    /\ decodedPosition.board = board
    /\ decodedPosition.currentPlayer = currentPlayer
    /\ availableCastling(decodedPosition.castlingRights) = availableCastling(flags(hasMoved))
    /\ decodedPosition.enPassantTarget = enPassantTarget

\* fenToBoard is applied to the input.
decodesFEN ==
    /\ output.of = "none"
    /\ output' = [of |-> "fenToBoard", value |-> fenToBoard(input)]
    /\ UNCHANGED <<gameVars, engineVars, input, callStack, initVars>>

\* The ranks of the initial position.
startRanks == [row \in 1..8 |-> rankToFEN(initializeBoard[row - 1], 0, 0)]

\* Ranks, well formed and not.
rankInputs ==
    {<<"8">>, <<"7">>, <<"9">>, <<"4", "4">>, <<"4", "5">>, <<"p", "7">>, <<"8", "p">>,
     <<"0", "8">>, << >>, <<"-">>, <<"Z", "7">>, <<"3", "x", "4">>,
     <<"R", "3", "K", "2", "R">>, <<"r", "3", "k", "2", "r", "1">>,
     <<"P", "P", "P", "P", "P", "P", "P", "P">>,
     <<"P", "P", "P", "P", "P", "P", "P", "P", "P">>}

\* Board fields: the initial position with one rank replaced, or with a rank
\* too few or too many.
boardInputs ==
    {join([startRanks EXCEPT ![row] = rank], "/") : row \in {1, 4, 8}, rank \in rankInputs}
    \cup {join(SubSeq(startRanks, 1, 7), "/"), join(startRanks \o <<(<<"8">>)>>, "/")}

\* The fields after the board field: five, none, four, six.
tailInputs ==
    {<<(<<"w">>), <<"K", "Q", "k", "q">>, <<"-">>, <<"0">>, <<"1">>>>,
     << >>,
     <<(<<"b">>), <<"-">>, <<"e", "3">>, <<"0">>>>,
     <<(<<"w">>), <<"K", "q">>, <<"-">>, <<"0">>, <<"1">>, <<"1">>>>}

fenInputs == {join(<<b>> \o tail, " ") : b \in boardInputs, tail \in tailInputs}

FenInit == Constructed /\ line = 1 /\ input \in fenInputs

FenNext == decodesFEN

FenSpec == FenInit /\ [][FenNext]_vars

\* The squares a rank describes: a digit as many as it says, any other
\* character one.
RECURSIVE squaresOf(_)
squaresOf(rank) ==
    IF rank = << >> THEN 0
    ELSE (IF isDigit(Head(rank)) THEN parseInt(Head(rank)) ELSE 1) + squaresOf(Tail(rank))

\* The characters a board field is made of: digits, the piece letters in
\* either case, and "/" between the ranks.
boardCharacters ==
    {digits[i] : i \in DOMAIN digits}
    \cup {"p", "n", "b", "r", "q", "k", "P", "N", "B", "R", "Q", "K", "/"}

\* fen has not six fields, or a rank of its board field does not describe
\* exactly 8 squares, or its board field holds a character of no meaning.
malformedFEN(fen) ==
    LET fields == split(fen, " ")
        rows == split(fields[1], "/")
    IN  \/ Len(fields) # 6
        \/ \E row \in DOMAIN rows : squaresOf(rows[row]) # 8
        \/ \E i \in DOMAIN fields[1] : fields[1][i] \notin boardCharacters

\* C27: fenToBoard fails, and returns no position, for every input that has
\* not six fields, has a rank not describing exactly 8 squares, or has a
\* character in the board field that is neither a digit nor a piece letter.
C27_MalformedFENRejected ==
    (output.of = "fenToBoard" /\ malformedFEN(input)) => ~output.value.ok

----------------------------------------------------------------------------
(* The FEN the AI sends to the engine (ai/fen boardToFEN, called by
   ChessAI.getBestMove with the game's hasMoved map as castlingRights). *)

\* castlingRights[key] !== false
notFalse(castlingRights, key) == castlingRights[key] # "false"

\* The castling field of ai/fen's boardToFEN.
castlingAvailability(castlingRights) ==
    LET castling ==
            (IF notFalse(castlingRights, "white-rook-right") /\ notFalse(castlingRights, "white-king")
             THEN <<"K">> ELSE << >>)
            \o (IF notFalse(castlingRights, "white-rook-left") /\ notFalse(castlingRights, "white-king")
                THEN <<"Q">> ELSE << >>)
            \o (IF notFalse(castlingRights, "black-rook-right") /\ notFalse(castlingRights, "black-king")
                THEN <<"k">> ELSE << >>)
            \o (IF notFalse(castlingRights, "black-rook-left") /\ notFalse(castlingRights, "black-king")
                THEN <<"q">> ELSE << >>)
    IN  IF castling = << >> THEN <<"-">> ELSE castling

\* ai/fen's boardToFEN
boardToFENForAI(b, player, castlingRights, target) ==
    join(<<join([row \in 1..8 |-> rankToFEN(b[row - 1], 0, 0)], "/"),
           <<IF player = "white" THEN "w" ELSE "b">>,
           castlingAvailability(castlingRights),
           IF target = nullPos THEN <<"-">>
           ELSE <<lowers[target.col + 1], toString(8 - target.row)>>,
           <<"0">>,
           <<"1">>>>, " ")

\* The FEN ChessAI.getBestMove would send for the game's position, and its
\* castling field.
sentFEN == boardToFENForAI(board, currentPlayer, flags(hasMoved), enPassantTarget)

sentCastling == split(sentFEN, " ")[3]

\* The right of color on side is left: neither the king nor that rook has moved.
rightRemains(color, side) ==
    ~hasMoved[color \o "-king"] /\ ~hasMoved[color \o "-rook-" \o side]

\* C28: the castling field of the FEN sent to the engine holds K exactly when
\* white's king and kingside rook are both unmoved, likewise Q, k and q, and
\* is "-" exactly when no right remains.
C28_CastlingFieldSent ==
    /\ includes(sentCastling, "K") <=> rightRemains("white", "right")
    /\ includes(sentCastling, "Q") <=> rightRemains("white", "left")
    /\ includes(sentCastling, "k") <=> rightRemains("black", "right")
    /\ includes(sentCastling, "q") <=> rightRemains("black", "left")
    /\ (sentCastling = <<"-">>) <=>
          \A color \in {"white", "black"}, side \in {"left", "right"} :
              ~rightRemains(color, side)

----------------------------------------------------------------------------
(* UCI move tokens: uciToMove and moveToUci of types/chess, which ChessAI
   uses on the engine's replies, and those of ai/move-parser.  A Move without
   promotion has promotion "undefined". *)

FILES == <<"a", "b", "c", "d", "e", "f", "g", "h">>

RANKS == <<"8", "7", "6", "5", "4", "3", "2", "1">>

positionToAlgebraic(pos) == <<FILES[pos.col + 1], RANKS[pos.row + 1]>>

\* FILES.indexOf and RANKS.indexOf give -1 for a character they do not hold.
algebraicToPosition(algebraic) ==
    [col |-> indexIn(FILES, charAt(algebraic, 1)) - 1,
     row |-> indexIn(RANKS, charAt(algebraic, 2)) - 1]

\* text.substring(start, end)
substring(text, start, end) ==
    SubSeq(text, start + 1, IF end < Len(text) THEN end ELSE Len(text))

promotionLetters == [queen |-> "q", rook |-> "r", bishop |-> "b", knight |-> "n"]

\* promotionMap[promotionChar] of uciToMove
promotionOf(char) ==
    IF \E pieceType \in DOMAIN promotionLetters : promotionLetters[pieceType] = char
    THEN CHOOSE pieceType \in DOMAIN promotionLetters : promotionLetters[pieceType] = char
    ELSE "undefined"

uciToMove(uci) ==
    [ok |-> TRUE,
     move |-> [from |-> algebraicToPosition(substring(uci, 0, 2)),
               to |-> algebraicToPosition(substring(uci, 2, 4)),
               promotion |-> IF Len(uci) = 5 THEN promotionOf(uci[5]) ELSE "undefined"]]

\* A faulty variant of moveToUci that takes the row for the rank.
moveToUciRowAsRank(move) ==
    <<FILES[move.from.col + 1], toString(move.from.row + 1),
      FILES[move.to.col + 1], toString(move.to.row + 1)>>
    \o (IF move.promotion \in DOMAIN promotionLetters
        THEN <<promotionLetters[move.promotion]>> ELSE << >>)

moveToUci(move) ==
    positionToAlgebraic(move.from) \o positionToAlgebraic(move.to)
    \o (IF move.promotion \in DOMAIN promotionLetters
        THEN <<promotionLetters[move.promotion]>> ELSE << >>)

\* ai/move-parser: isValidUciString
isValidUciString(uciString) ==
    /\ Len(uciString) \in {4, 5}
    /\ indexIn(SubSeq(lowers, 1, 8), uciString[1]) # 0
    /\ indexIn(SubSeq(lowers, 1, 8), uciString[3]) # 0
    /\ indexIn(SubSeq(digits, 2, 9), uciString[2]) # 0
    /\ indexIn(SubSeq(digits, 2, 9), uciString[4]) # 0
    /\ Len(uciString) = 5 => toLowerCase(uciString[5]) \in {"q", "r", "b", "n"}

\* ai/move-parser: uciToMove
uciToMove_parser(uciString) ==
    IF ~isValidUciString(uciString) THEN thrown
    ELSE [ok |-> TRUE,
          move |-> [from |-> Pos(8 - parseInt(uciString[2]), indexIn(lowers, uciString[1]) - 1),
                    to |-> Pos(8 - parseInt(uciString[4]), indexIn(lowers, uciString[3]) - 1),
                    promotion |-> IF Len(uciString) = 5
                                  THEN promotionOf(toLowerCase(uciString[5]))
                                  ELSE "undefined"]]

\* ai/move-parser: moveToUci
moveToUci_parser(move) ==
    <<lowers[move.from.col + 1], toString(8 - move.from.row),
      lowers[move.to.col + 1], toString(8 - move.to.row)>>
    \o (IF move.promotion # "undefined" THEN <<promotionLetters[move.promotion]>> ELSE << >>)

\* The moves on the board, with and without promotion.
moveInputs ==
    [from : Squares, to : Squares,
     promotion : {"undefined", "queen", "rook", "bishop", "knight"}]

MaxUciLength == 6

\* Characters of replies: a file, a rank and a promotion letter, a letter
\* that is neither a file nor a promotion, a digit that is no rank.
uciCharacters == {"e", "2", "q", "x", "9"}

uciInputs == UNION {[1..n -> uciCharacters] : n \in 0..MaxUciLength}

\* moveToUci of types/chess is applied to the input.
encodesMove ==
    /\ output.of = "none" /\ "move" \in DOMAIN input
    /\ output' = [of |-> "moveToUci", value |-> moveToUci(input.move)]
    /\ UNCHANGED <<gameVars, engineVars, input, callStack, initVars>>

\* moveToUci of ai/move-parser is applied to the input.
encodesMove_parser ==
    /\ output.of = "none" /\ "move" \in DOMAIN input
    /\ output' = [of |-> "moveToUci_parser", value |-> moveToUci_parser(input.move)]
    /\ UNCHANGED <<gameVars, engineVars, input, callStack, initVars>>

\* uciToMove of types/chess is applied to the input, as ChessAI does with a
\* reply of the engine.
decodesReply ==
    /\ output.of = "none" /\ "uci" \in DOMAIN input
    /\ output' = [of |-> "uciToMove", value |-> uciToMove(input.uci)]
    /\ UNCHANGED <<gameVars, engineVars, input, callStack, initVars>>

UciInit ==
    /\ Constructed /\ line = 1
    /\ input \in {[move |-> m] : m \in moveInputs} \cup {[uci |-> text] : text \in uciInputs}

UciNext == encodesMove \/ encodesMove_parser \/ decodesReply

UciSpec == UciInit /\ [][UciNext]_vars

isLowerCase(text) == \A i \in DOMAIN text : text[i] = toLowerCase(text[i])

\* C29: for every move on the board with promotion absent or queen, rook,
\* bishop or knight, moveToUci gives a lowercase token of 4 or 5 characters
\* and uciToMove gives the move back, in types/chess and in ai/move-parser.
C29_UciRoundTrip ==
    /\ output.of = "moveToUci" =>
          /\ Len(output.value) \in {4, 5}
          /\ isLowerCase(output.value)
          /\ uciToMove(output.value) = [ok |-> TRUE, move |-> input.move]
    /\ output.of = "moveToUci_parser" =>
          /\ Len(output.value) \in {4, 5}
          /\ isLowerCase(output.value)
          /\ uciToMove_parser(output.value) = [ok |-> TRUE, move |-> input.move]

\* A promotion to a knight on e8 has been encoded as e7e8n.
C29_Witness ==
    /\ output.of = "moveToUci"
    /\ input.move.promotion = "knight"
    /\ output.value = <<"e", "7", "e", "8", "n">>

\* text is no move token: not 4 or 5 characters, a file outside a-h, a rank
\* outside 1-8, or a fifth character outside q, r, b, n.
malformedUci(text) ==
    \/ Len(text) \notin {4, 5}
    \/ \E i \in {1, 3} : text[i] \notin {FILES[f] : f \in DOMAIN FILES}
    \/ \E i \in {2, 4} : text[i] \notin {RANKS[r] : r \in DOMAIN RANKS}
    \/ Len(text) = 5 /\ text[5] \notin {"q", "r", "b", "n"}

\* C30: the uciToMove that decodes the engine's replies rejects every string
\* that is no move token instead of returning a Move.
C30_MalformedUciRejected ==
    (output.of = "uciToMove" /\ malformedUci(input.uci)) => ~output.value.ok

\* ---------------------------------------------------------------------------
\* components/Chess/ChessGame.tsx: move generation, call by call.  The
\* component's functions call each other (getValidMoves -> getCastlingMoves ->
\* isSquareUnderAttack -> getValidMoves ...); each call is a frame of callStack.
\* input is the component state the call reads (board, hasMoved,
\* enPassantTarget) and the square of the piece asked about.
\* ---------------------------------------------------------------------------

\* Frames the engine's call stack holds; the call after that throws RangeError.
MaxDepth == 12

Frame(fn, piece, pos, ignoreCastling) ==
    [fn |-> fn, piece |-> piece, pos |-> pos, ignoreCastling |-> ignoreCastling,
     pc |-> "entry", square |-> 0, moves |-> {}, returned |-> {}, attacked |-> FALSE]

top == callStack[Len(callStack)]

callers == SubSeq(callStack, 1, Len(callStack) - 1)

\* The running function goes on as frame and calls callee.
callsFrom(frame, callee) ==
    IF Len(callStack) >= MaxDepth
    THEN /\ callStack' = << >>
         /\ output' = [of |-> "RangeError"]
    ELSE /\ callStack' = Append(Append(callers, frame), callee)
         /\ UNCHANGED output

\* The running function goes on as frame without calling.
goesOn(frame) ==
    /\ callStack' = Append(callers, frame)
    /\ UNCHANGED output

\* The running function returns moves (a list) or attacked (a boolean).
returns(moves, attacked) ==
    IF Len(callStack) = 1
    THEN /\ callStack' = << >>
         /\ output' = [of |-> "getValidMoves", moves |-> moves]
    ELSE /\ callStack' = [callers EXCEPT ![Len(callers)] =
                              [@ EXCEPT !.returned = moves, !.attacked = attacked]]
         /\ UNCHANGED output

\* setValidMoves(getValidMoves(piece, {row, col})): the call from outside.
callsGetValidMoves ==
    /\ output.of = "none"
    /\ callStack = << >>
    /\ callStack' = <<Frame("getValidMoves", At(input.board, input.pos), input.pos, FALSE)>>
    /\ UNCHANGED <<gameVars, engineVars, input, output, initVars>>

\* getValidMoves: the switch gives the piece's basic moves, then the special
\* moves are added; those of a king are a call of getCastlingMoves.
getValidMovesRuns ==
    /\ callStack # << >>
    /\ top.fn = "getValidMoves"
    /\ LET basic == getBasicMoves(top.piece, top.pos, input.board)
                        \cup getEnPassantMoves(input, top.piece, top.pos)
       IN  IF top.pc = "entry"
           THEN IF top.piece.type = "king"
                THEN callsFrom([top EXCEPT !.pc = "castling", !.moves = basic],
                               Frame("getCastlingMoves", top.piece, top.pos, FALSE))
                ELSE returns(basic, FALSE)
           ELSE returns(top.moves \cup top.returned, FALSE)
    /\ UNCHANGED <<gameVars, engineVars, input, initVars>>

\* The squares between king and rook are empty.
pathIsClear(color, cols) == \A col \in cols : input.board[homeRow(color)][col] = null

\* getCastlingMoves from the queenside test on.
queensideFrom(frame) ==
    LET color == frame.piece.color
    IN  IF /\ ~input.hasMoved[color \o "-rook-left"]
           /\ pathIsClear(color, {1, 2, 3})
        THEN callsFrom([frame EXCEPT !.pc = "left2"],
                       Frame("isSquareUnderAttack", Piece("none", color),
                             Pos(homeRow(color), 2), FALSE))
        ELSE returns(frame.moves, FALSE)

\* getCastlingMoves from the kingside test on.
kingsideFrom(frame) ==
    LET color == frame.piece.color
    IN  IF /\ ~input.hasMoved[color \o "-rook-right"]
           /\ pathIsClear(color, {5, 6})
        THEN callsFrom([frame EXCEPT !.pc = "right5"],
                       Frame("isSquareUnderAttack", Piece("none", color),
                             Pos(homeRow(color), 5), FALSE))
        ELSE queensideFrom(frame)

\* getCastlingMoves: the king's own square is tested with ignoreCastling = true,
\* the squares it crosses with the default, ignoreCastling = false.
getCastlingMovesRuns ==
    /\ callStack # << >>
    /\ top.fn = "getCastlingMoves"
    /\ LET color == top.piece.color
           row == homeRow(color)
           square(col) == Frame("isSquareUnderAttack", Piece("none", color), Pos(row, col), FALSE)
       IN  CASE top.pc = "entry" ->
                   IF top.piece.type = "king" /\ ~input.hasMoved[color \o "-king"]
                   THEN callsFrom([top EXCEPT !.pc = "own"],
                                  Frame("isSquareUnderAttack", Piece("none", color),
                                        top.pos, TRUE))
                   ELSE returns({}, FALSE)
             [] top.pc = "own" ->
                   IF top.attacked THEN returns({}, FALSE) ELSE kingsideFrom(top)
             [] top.pc = "right5" ->
                   IF top.attacked
                   THEN queensideFrom(top)
                   ELSE callsFrom([top EXCEPT !.pc = "right6"], square(6))
             [] top.pc = "right6" ->
                   queensideFrom([top EXCEPT !.moves =
                                     IF top.attacked THEN @ ELSE @ \cup {Pos(row, 6)}])
             [] top.pc = "left2" ->
                   IF top.attacked
                   THEN returns(top.moves, FALSE)
                   ELSE callsFrom([top EXCEPT !.pc = "left3"], square(3))
             [] top.pc = "left3" ->
                   returns(top.moves \cup (IF top.attacked THEN {} ELSE {Pos(row, 2)}), FALSE)
    /\ UNCHANGED <<gameVars, engineVars, input, initVars>>

\* isSquareUnderAttack(pos, defenderColor, ignoreCastling): one square of the
\* double loop per step.  The moves of an opposing piece are its basic moves
\* when ignoreCastling is set and getValidMoves otherwise; getValidMoves of a
\* piece other than a king calls nothing that calls back and is taken whole.
isSquareUnderAttackScans ==
    /\ callStack # << >>
    /\ top.fn = "isSquareUnderAttack"
    /\ LET at == Pos(top.square \div 8, top.square % 8)
           piece == At(input.board, at)
           onwards == [top EXCEPT !.pc = "entry", !.square = @ + 1]
           found(moves) == IF top.pos \in moves THEN returns({}, TRUE) ELSE goesOn(onwards)
       IN  IF top.pc = "moves" THEN found(top.returned)
           ELSE IF top.square = 64 THEN returns({}, FALSE)
           ELSE IF piece = null \/ piece.color = top.piece.color THEN goesOn(onwards)
           ELSE IF top.ignoreCastling THEN found(getBasicMoves(piece, at, input.board))
           ELSE IF piece.type = "king"
           THEN callsFrom([top EXCEPT !.pc = "moves"], Frame("getValidMoves", piece, at, FALSE))
           ELSE found(getBasicMoves(piece, at, input.board)
                          \cup getEnPassantMoves(input, piece, at))
    /\ UNCHANGED <<gameVars, engineVars, input, initVars>>

emptyBoard == [r \in 0..7 |-> [c \in 0..7 |-> null]]

\* Both kings and all four rooks on their squares, nothing else.
kingsAndRooks ==
    [emptyBoard EXCEPT ![0][0] = Piece("rook", "black"), ![0][4] = Piece("king", "black"),
                       ![0][7] = Piece("rook", "black"), ![7][0] = Piece("rook", "white"),
                       ![7][4] = Piece("king", "white"), ![7][7] = Piece("rook", "white")]

\* The same with a white queen on the d-file, which looks at d8.
kingsRooksAndQueen == [kingsAndRooks EXCEPT ![4][3] = Piece("queen", "white")]

moveGenInputs ==
    {[board |-> b, hasMoved |-> moved, enPassantTarget |-> nullPos, pos |-> pos] :
        b \in {initializeBoard, kingsAndRooks, kingsRooksAndQueen},
        moved \in {noneMoved, [noneMoved EXCEPT !["black-king"] = TRUE],
                   [noneMoved EXCEPT !["white-king"] = TRUE]},
        pos \in {Pos(7, 4), Pos(0, 4), Pos(7, 0)}}

MoveGenInit == Constructed /\ line = 1 /\ input \in moveGenInputs

MoveGenNext ==
    \/ callsGetValidMoves
    \/ getValidMovesRuns
    \/ getCastlingMovesRuns
    \/ isSquareUnderAttackScans

MoveGenSpec == MoveGenInit /\ [][MoveGenNext]_vars

\* A call of getCastlingMoves made while getCastlingMoves is running for the
\* same king: the function reads nothing that changes, so the inner call does
\* what the outer one did and neither returns.
castlingReentered ==
    \E i, j \in 1..Len(callStack) :
        /\ i < j
        /\ callStack[i].fn = "getCastlingMoves"
        /\ callStack[j].fn = "getCastlingMoves"
        /\ callStack[i].piece = callStack[j].piece
        /\ callStack[i].pos = callStack[j].pos

\* C31: move generation terminates on every position: deciding whether a
\* square is attacked never re-enters the castling generation that asked, and
\* getValidMoves returns its moves instead of exhausting the call stack.
C31_MoveGenerationReturns == ~castlingReentered /\ output.of # "RangeError"

\* Some opposing piece's basic move set contains pos.
inBasicMovesOfOpponent(pos, defenderColor, checkBoard) ==
    \E from \in PiecesOf(Opp(defenderColor), checkBoard) :
        pos \in getBasicMoves(At(checkBoard, from), from, checkBoard)

\* C32: for every square that holds a piece of the defending colour,
\* checkSquareUnderAttack is true exactly when the basic moves (getBasicMoves)
\* of some opposing piece contain the square.
C32_AttackIsBasicMove ==
    \A pos \in Squares :
        At(board, pos) # null =>
            (checkSquareUnderAttack(pos, At(board, pos).color, board)
                <=> inBasicMovesOfOpponent(pos, At(board, pos).color, board))

\* generateRandomMove of the mock worker: any two different squares.
generateRandomMove == {m \in Squares \X Squares : m[1] # m[2]}

\* C33: handleMove applies a move only when the piece on the from-square
\* belongs to currentPlayer: called, as makeAIMove calls it when the AI is to
\* move, with a move of the oracle that names a white piece, it leaves the game
\* state as it was.
C33_OnlyOwnPieceMoves ==
    \A move \in generateRandomMove :
        /\ isAIEnabled /\ currentPlayer = "black"
        /\ At(board, move[1]).color = "white"
        => reduceAll(state, handleMove(state, move[1], move[2])) = state

\* A human is to move and nothing stands in the way of a click.
acceptsClicks ==
    /\ ~gameState.isOver
    /\ promotionPawn = noPromotion
    /\ ~isAIThinking
    /\ ~processingAction
    /\ ~(isAIEnabled /\ currentPlayer = "black")

\* C34: when the game is not over, no promotion is pending, isAIThinking and
\* processingAction are false, a human is to move and nothing is selected, a
\* click on a square with a piece of the side to move leads, once the actions
\* of handleSquareClick have been reduced, to that square being selectedPiece
\* and the piece's legal moves being validMoves.
C34_ClickSelects ==
    [][\A position \in Squares :
           /\ acceptsClicks
           /\ selectedPiece = nullPos
           /\ At(board, position).color = currentPlayer
           /\ SquareClick(position)
           => /\ selectedPiece' = position
              /\ validMoves' = legalMoves(state, At(board, position), position)]_vars

\* C35: in every reachable state in which promotionPawn is non-null,
\* processingAction is true (so nothing else is accepted between
\* SET_PROMOTION_PAWN and PROMOTE_PAWN).
C35_PromotionLocksGame == promotionPawn # noPromotion => processingAction

\* The squares the rooks of a colour start on.
corners(color) == {Pos(homeRow(color), 0), Pos(homeRow(color), 7)}

rookFlags(color, moved) ==
    <<moved[color \o "-rook-left"], moved[color \o "-rook-right"]>>

\* C36: a castling right is lost only through a move of the king or of the
\* rook that started on that side's corner: a move of a rook from any square
\* other than its colour's corners leaves both rook moved-flags of that colour
\* as they were.
C36_OnlyCornerRookClearsRight ==
    [][/\ last'.op = "handleSquareClick"
       /\ \E i \in DOMAIN last'.did : last'.did[i] = "MOVE_PIECE"
       /\ At(board, selectedPiece).type = "rook"
       /\ selectedPiece \notin corners(At(board, selectedPiece).color)
       => rookFlags(At(board, selectedPiece).color, hasMoved')
              = rookFlags(At(board, selectedPiece).color, hasMoved)]_vars

\* The reducer cases that apply a move at once.
moveActions == {"MOVE_PIECE", "HANDLE_CASTLING", "HANDLE_EN_PASSANT"}

\* The step applies the move selectedPiece -> last'.to of a click.
moveApplied ==
    /\ last'.op = "handleSquareClick"
    /\ \E i \in DOMAIN last'.did : last'.did[i] \in moveActions

\* The new state says that the side to move is in check (or mated).
checkReported(gs, player) ==
    \/ gs.message = player \o " is in check!"
    \/ gs.isOver /\ gs.winner = Opp(player)

\* C37: after every applied move, castling and en passant included, check and
\* checkmate are evaluated on the board that the reducer produces, so the side
\* to move is reported in check exactly when its king is attacked on the new
\* current board.
C37_StatusOfProducedBoard ==
    [][moveApplied =>
           /\ boardAfterMove(state, selectedPiece, last'.to) = board'
           /\ checkReported(gameState', currentPlayer')
                  <=> isInCheck(currentPlayer', board')]_vars

\* C38: every applied move, a move completed by a promotion included, appends
\* exactly one entry to moveHistory, so moveHistory and boardPositions have the
\* same length at all times.
C38_HistoryMatchesPositions == Len(moveHistory) = Len(boardPositions)

\* ---------------------------------------------------------------------------
\* StockfishEngine.init call by call (src/ai/stockfish.ts).  init runs up to
\* each of its awaits in one step; other callers and the workers run in
\* between.  A command carries the number n of its submission; a posted one
\* also the worker it was posted to, this.worker at that moment being the
\* worker created last.  The lines that answer "uci" reach no callback that
\* acts on them and are left out.
\* ---------------------------------------------------------------------------

MaxInits == 2

\* Calls of the engine's other public methods (setPosition, ...).
MaxSends == 2

Submitted(kind) == [cmd |-> kind, n |-> Len(submitted) + 1]

Posted(command, w) == [cmd |-> command.cmd, n |-> command.n, worker |-> w]

\* this.worker.postMessage(command), this.worker being worker w
postMessage(command, w) ==
    /\ posted' = Append(posted, Posted(command, w))
    /\ reached' = Append(reached, Posted(command, w))

\* sendCommand(command) up to its return: the command is queued while the
\* engine is not ready, unless it is "isready"; otherwise it is posted.
sendCommandOf(command, w) ==
    IF ~isReady /\ command.cmd # "isready"
    THEN /\ commandQueue' = Append(commandQueue, command)
         /\ UNCHANGED <<posted, reached>>
    ELSE /\ postMessage(command, w)
         /\ UNCHANGED commandQueue

\* init() is called: it returns at once if the engine is initialized, else it
\* creates a worker and runs up to `await this.sendCommand('uci')`.
initCalled ==
    /\ Len(inits) < MaxInits
    /\ IF initialized
       THEN /\ inits' = Append(inits, [pc |-> "done"])
            /\ UNCHANGED <<worker, workers, submitted, reached, commandQueue, posted>>
       ELSE /\ worker' = "created"
            /\ workers' = workers + 1
            /\ submitted' = Append(submitted, Submitted("uci"))
            /\ sendCommandOf(Submitted("uci"), workers + 1)
            /\ inits' = Append(inits, [pc |-> "isready"])
    /\ UNCHANGED <<initialized, isReady, messageCallbacks, enginePosition, searching,
                   timers, emitted, stops, messages, calls>>
    /\ UNCHANGED <<gameVars, input, output, callStack>>

\* Invocation i goes on to `await this.sendCommand('isready')`: its callback
\* is registered under the key 'ready' and the command is posted.
initSendsIsReady(i) ==
    /\ inits[i].pc = "isready"
    /\ inits' = [inits EXCEPT ![i].pc = "waiting"]
    /\ messageCallbacks' = [messageCallbacks EXCEPT !.ready = i]
    /\ submitted' = Append(submitted, Submitted("isready"))
    /\ sendCommandOf(Submitted("isready"), workers)
    /\ UNCHANGED <<worker, workers, initialized, isReady, enginePosition, searching,
                   timers, emitted, stops, messages, calls>>
    /\ UNCHANGED <<gameVars, input, output, callStack>>

\* After readyok, and after each queued command it has sent, invocation i goes
\* on: the engine is initialized and the next queued command is sent.
initGoesOn(i) ==
    /\ inits[i].pc \in {"resolved", "draining"}
    /\ initialized' = TRUE
    /\ IF commandQueue = << >>
       THEN /\ inits' = [inits EXCEPT ![i].pc = "done"]
            /\ UNCHANGED <<commandQueue, posted, reached>>
       ELSE /\ inits' = [inits EXCEPT ![i].pc = "draining"]
            /\ commandQueue' = Tail(commandQueue)
            /\ postMessage(Head(commandQueue), workers)
    /\ UNCHANGED <<worker, workers, submitted, isReady, messageCallbacks, enginePosition,
                   searching, timers, emitted, stops, messages, calls>>
    /\ UNCHANGED <<gameVars, input, output, callStack>>

\* Another public method (setPosition, setSkillLevel, ...) calls sendCommand.
sendCommandCalled ==
    /\ Cardinality({k \in DOMAIN submitted : submitted[k].cmd = "position"}) < MaxSends
    /\ isReady => worker # "null"
    /\ submitted' = Append(submitted, Submitted("position"))
    /\ sendCommandOf(Submitted("position"), workers)
    /\ UNCHANGED <<inits, worker, workers, initialized, isReady, messageCallbacks,
                   enginePosition, searching, timers, emitted, stops, messages, calls>>
    /\ UNCHANGED <<gameVars, input, output, callStack>>

\* Worker w reads the next command posted to it and answers "isready".
workerAnswers(w) ==
    /\ \E k \in DOMAIN posted :
          /\ posted[k].worker = w
          /\ \A j \in 1..(k - 1) : posted[j].worker # w
          /\ posted' = SubSeq(posted, 1, k - 1) \o SubSeq(posted, k + 1, Len(posted))
          /\ messages' = IF posted[k].cmd = "isready"
                         THEN Append(messages, [text |-> "readyok", worker |-> w])
                         ELSE messages
    /\ UNCHANGED <<worker, initialized, isReady, commandQueue, messageCallbacks,
                   enginePosition, searching, timers, emitted, stops, calls>>
    /\ UNCHANGED <<gameVars, input, output, callStack, initVars>>

\* handleMessage on a readyok line: the callback registered under 'ready', if
\* any, sets isReady and resolves its invocation's promise; the key is deleted.
readyokHandled ==
    /\ messages # << >>
    /\ messages' = Tail(messages)
    /\ LET i == messageCallbacks.ready
       IN  IF i # 0
           THEN /\ isReady' = TRUE
                /\ inits' = [inits EXCEPT ![i].pc = "resolved"]
           ELSE UNCHANGED <<isReady, inits>>
    /\ messageCallbacks' = [messageCallbacks EXCEPT !.ready = 0]
    /\ UNCHANGED <<worker, workers, submitted, reached, initialized, commandQueue, posted,
                   enginePosition, searching, timers, emitted, stops, calls>>
    /\ UNCHANGED <<gameVars, input, output, callStack>>

StartInit == Init /\ line = 1

StartNext ==
    \/ initCalled
    \/ \E i \in DOMAIN inits : initSendsIsReady(i)
    \/ \E i \in DOMAIN inits : initGoesOn(i)
    \/ sendCommandCalled
    \/ \E w \in 1..workers : workerAnswers(w)
    \/ readyokHandled

StartSpec == StartInit /\ [][StartNext]_vars

\* Nothing is on its way: no line to handle, no command to read, no
\* invocation that can go on by itself.
settledDown ==
    /\ messages = << >>
    /\ posted = << >>
    /\ \A i \in DOMAIN inits : inits[i].pc \in {"waiting", "done"}

\* C39: when init() is invoked twice before the first invocation has finished,
\* exactly one worker is created and both invocations complete (once nothing
\* is on its way any more, none of them is still waiting).
C39_OneWorkerBothComplete ==
    /\ workers <= 1
    /\ settledDown => \A i \in DOMAIN inits : inits[i].pc = "done"

\* C40: commands reach the worker in the order they were submitted: no command
\* is posted ahead of one that is still waiting in the queue, none is posted
\* twice, and once the engine is ready and nothing is on its way the queue is
\* empty.
C40_SubmissionOrder ==
    /\ \A k \in DOMAIN reached : \A q \in DOMAIN commandQueue :
           reached[k].n < commandQueue[q].n
    /\ \A j, k \in DOMAIN reached : reached[j].n = reached[k].n => j = k
    /\ settledDown /\ initialized => commandQueue = << >>

====
